---- MODULE Spec2Model ----
(***************************************************************************)
(* Transcript intake pipeline of the skill manager (scripts/trigger.js).   *)
(*                                                                         *)
(* Each member of Procs is an operating-system process running main().     *)
(* A step of the model is one file-system visible operation of main(), so  *)
(* that concurrent invocations interleave exactly where the kernel lets    *)
(* them interleave.  The state directory holds the state file              *)
(* (analyzed.json), the per-process temp file used by writeStateFile and   *)
(* the lock directory with its pid file.                                   *)
(***************************************************************************)
EXTENDS Integers, Sequences, FiniteSets, TLC

\* ------------------------------------------------------------------------
\* Bounds of the model
\* ------------------------------------------------------------------------

\* number of transcript files under the projects directory
NumTranscripts == 2

\* config.TRANSCRIPT_COUNT handed to main (SKILL_MANAGER_COUNT)
BatchSize == 2

\* transcripts their owners remove while the runs go on
MaxDeletes == 1

\* ------------------------------------------------------------------------
\* Program constants and value spaces
\* ------------------------------------------------------------------------

\* discoverTranscripts keeps the 50 newest files
DiscoverCap == 50

\* the invocations of main (one operating-system process each)
Procs == {"p1", "p2"}

\* the invocation that is triggered first
First == "p1"

Transcripts == 1..NumTranscripts

None == "none"

\* exit statuses of the analyzer child: success and a failure
ExitCodes == {0, 1}

\* 'close' reports the exit status, or null when a signal ended the child
Signal == [kind |-> "signal"]

Exited(code) == [kind |-> "exit", code |-> code]

Terminations == {Exited(c) : c \in ExitCodes} \cup {Signal}

\* the analyzer child of the current transcript has not ended
NoTerm == [kind |-> "none"]

\* content of a file that does not exist
Missing == [kind |-> "missing"]

\* content of the state file after open(O_TRUNC) and before the data is written
Partial == [kind |-> "partial"]

\* content that JSON.parse rejects (a damaged file found at start-up)
Garbage == [kind |-> "garbage"]

\* content JSON.stringify(snapshot)
Json(snapshot) == [kind |-> "json", data |-> snapshot]

\* value of new Date().toISOString(); the instant itself is not modelled
Now == "ts"

\* what the filter's content checks find in a transcript file
Kinds == {"normal", "self", "minimal", "agent"}

\* Reasons main() can reject with
Errors == {"SyntaxError", "TypeError", "ENOENT", "EIO", "analysis"}

VARIABLES
    pc,             \* position of each process in main()
    kind,           \* per transcript: what the filter's checks see in it
    files,          \* transcript files that currently exist
    bulk,           \* further transcript files inside the lookback window: each
                    \* is newer than every file above and is a key of the state
                    \* file's transcripts (an earlier run analyzed it)
    stateFile,      \* content of analyzed.json
    tmpFile,        \* content of analyzed.json.tmp.<pid>, per process
    lock,           \* creator of skill-manager.lock.d, None if it is absent
    pidFile,        \* content of skill-manager.lock.d/pid
    initFd,         \* processes whose initStateFile holds the state file open
    ppFile,         \* preprocessed temp file of each process exists
    analyzer,       \* transcript the analyzer child of each process works on
    transcripts,    \* main: result of discoverTranscripts, until it is filtered
    state,          \* main: snapshot read before filtering
    unanalyzed,     \* main: result of filterUnanalyzed
    idx,            \* main: position of the for loop in unanalyzed
    currentState,   \* main: snapshot re-read for the current transcript, until used
    inProgressState,\* processTranscript: snapshot with the in_progress mark
    newState,       \* writeStateFile: snapshot being written
    term,           \* how the analyzer child of the current transcript ended
    failedIdx,      \* positions of the batch whose analyzer exit code was not 0
    error,          \* pending exception of each process, None if there is none
    lockAcquired,   \* main: result of acquireLock ("true"/"false"), None before
    sawFree,        \* the lock was absent when the process reached acquireLock
    acqEpoch,       \* number of releases that preceded the process's mkdir
    epoch,          \* number of releases of the lock so far
    processed,      \* transcripts on disk whose final status a run has recorded
    prior           \* main: what was processed when the run read the state file,
                    \* until the candidates are computed

\* the skills directory and a retirement pass (scripts/usage-tracker.js)
VARIABLES
    skills,         \* per skill name: its directory under ~/.claude/skills
    holding,        \* per directory name of ~/.claude/skills/.retired: its content
    rpc,            \* position of retireUnusedSkills
    snapshot,       \* retireUnusedSkills: skills, the result of getAllSkills
    ri,             \* retireUnusedSkills: position of the for loop in skills
    retirementSessions, \* retireUnusedSkills: the threshold it was called with
    retired,        \* retireUnusedSkills: names pushed to retired
    consolidated,   \* retireUnusedSkills: entries pushed to consolidated
    warned          \* the "Failed to retire" warnings the pass logged

\* one call of each similarity search (lib/similarity.js)
VARIABLES
    simName,        \* proposedName: the name both searches are called with
    simExisting,    \* existingNames: the list both searches are called with
    called,         \* which of the searches have returned
    strictMatches,  \* result of findSimilarSkillsStrict, <<>> before it
    wideMatches     \* result of findSimilarSkillsWide, <<>> before it

\* config.TRUNCATE_LINES, the truncateLines option of preprocessTranscript
VARIABLES
    truncateLines,
    transcriptCount \* config.TRANSCRIPT_COUNT, the limit of filterUnanalyzed

\* one call of a mark function (scripts/trigger.js)
VARIABLES
    markInput,      \* the snapshot object handed to the function
    markPath,       \* the transcript it is called for
    markCalled,     \* the function called, "none" before the call
    markReturned    \* the snapshot it returned

\* one call of processContentItem (scripts/trigger.js)
VARIABLES
    item,           \* the content item it is called with
    processedItem,  \* what it returned, the item itself before the call
    itemDone        \* the call has returned

\* one call of preprocessTranscript (scripts/trigger.js)
VARIABLES
    inputLines,     \* inputContent.split('\n'), the lines of the transcript
    ppc,            \* position of preprocessTranscript
    ppi,            \* position of the for loop in the lines
    outputLines,    \* outputLines
    outputFile      \* lines of the temp file it wrote, <<>> before the write

\* the temp files of the calls of preprocessTranscript (scripts/trigger.js)
VARIABLES
    clock,          \* Date.now(), in milliseconds
    tmpDir,         \* per temp file that exists: the call that wrote it last
    calls           \* per call of preprocessTranscript: the path it returned

\* one call of trackUsageInTranscript (scripts/usage-tracker.js)
VARIABLES
    transcriptContent, \* the phrases the transcript contains
    tpc,            \* position of trackUsageInTranscript
    tracked,        \* trackUsageInTranscript: skills, the result of getAllSkills
    ti,             \* trackUsageInTranscript: position of the for loop in skills
    skillsFound     \* trackUsageInTranscript: names pushed to skillsFound

pipelineVars ==
    <<pc, kind, files, bulk, stateFile, tmpFile, lock, pidFile, initFd, ppFile,
      analyzer, transcripts, state, unanalyzed, idx, currentState,
      inProgressState, newState, term, failedIdx, error, lockAcquired, sawFree,
      acqEpoch, epoch, processed, prior>>

retireVars ==
    <<skills, holding, rpc, snapshot, ri, retirementSessions, retired,
      consolidated, warned>>

similarVars == <<simName, simExisting, called, strictMatches, wideMatches>>

optVars == <<truncateLines, transcriptCount>>

markVars == <<markInput, markPath, markCalled, markReturned>>

itemVars == <<item, processedItem, itemDone>>

ppVars == <<inputLines, ppc, ppi, outputLines, outputFile>>

tmpVars == <<clock, tmpDir, calls>>

trackVars == <<transcriptContent, tpc, tracked, ti, skillsFound>>

\* the variables of the library functions, which main never touches
libVars == <<similarVars, optVars, markVars,
    itemVars, ppVars, tmpVars, trackVars>>

\* what each library function leaves alone
exceptSimilar ==
    <<pipelineVars, retireVars, optVars, markVars,
      itemVars, ppVars, tmpVars, trackVars>>

exceptItem ==
    <<pipelineVars, retireVars, similarVars, optVars, markVars,
      ppVars, tmpVars, trackVars>>

exceptPreprocess ==
    <<pipelineVars, retireVars, similarVars, optVars, markVars,
      itemVars, tmpVars, trackVars>>

exceptTmp ==
    <<pipelineVars, retireVars, similarVars, optVars, markVars,
      itemVars, ppVars, trackVars>>

skillVars == <<retireVars, libVars>>

vars == <<pipelineVars, skillVars>>

\* ------------------------------------------------------------------------
\* Snapshots and transcript records
\* ------------------------------------------------------------------------

EmptyRecord == [f \in {} |-> Now]

\* const initialState = { version: 1, transcripts: {} }
initialState == [version |-> 1, transcripts |-> [t \in {} |-> EmptyRecord]]

\* JSON.parse of a file content succeeds
Parses(content) == content.kind = "json"

\* mutant: started_at is not taken out of the entry
RestKeepsStartedAt(entry) == entry

\* const { started_at, ...rest } = existingEntry
Rest(entry) == [f \in (DOMAIN entry) \ {"started_at"} |-> entry[f]]

\* { ...a, ...b }
Spread(a, b) ==
    [f \in (DOMAIN a) \cup (DOMAIN b) |-> IF f \in DOMAIN b THEN b[f] ELSE a[f]]

\* state.transcripts[transcriptPath] || {}
ExistingEntry(st, t) ==
    IF t \in DOMAIN st.transcripts THEN st.transcripts[t] ELSE EmptyRecord

\* mutant: the records of the other transcripts are not copied over
WithEntryOnly(st, t, newEntry) ==
    [st EXCEPT !.transcripts = [u \in {t} |-> newEntry]]

\* { ...state, transcripts: { ...state.transcripts, [transcriptPath]: newEntry } }
WithEntry(st, t, newEntry) ==
    [st EXCEPT !.transcripts =
        [u \in (DOMAIN st.transcripts) \cup {t} |->
            IF u = t THEN newEntry ELSE st.transcripts[u]]]

markTranscriptInProgress(st, t) ==
    WithEntry(st, t, [status |-> "in_progress", started_at |-> Now])

markTranscriptCompleted(st, t) ==
    WithEntry(st, t,
        Spread(Rest(ExistingEntry(st, t)),
               [status |-> "completed", analyzed_at |-> Now]))

markTranscriptFailed(st, t, exitCode) ==
    WithEntry(st, t,
        Spread(Rest(ExistingEntry(st, t)),
               [status |-> "failed", failed_at |-> Now, exit_code |-> exitCode]))

\* resolve({ exitCode: code ?? 0 })
CloseExitCode(tm) == IF tm.kind = "signal" THEN 0 ELSE tm.code

\* ------------------------------------------------------------------------
\* Discovery and filtering
\* ------------------------------------------------------------------------

\* stat.mtimeMs of a transcript: a larger number is a later modification
Mtime(t) == t

RECURSIVE SortByMtimeDesc(_)
SortByMtimeDesc(S) ==
    IF S = {} THEN <<>>
    ELSE LET newest == CHOOSE t \in S : \A u \in S : Mtime(u) <= Mtime(t)
         IN  <<newest>> \o SortByMtimeDesc(S \ {newest})

Slice(s, n) == SubSeq(s, 1, IF Len(s) < n THEN Len(s) ELSE n)

\* discoverTranscripts: every file is inside the lookback window.  The newer
\* files take the first places of the sorted list, so slice(0, 50) leaves the
\* others what remains of the 50 places
discoverTranscripts(existing, newer) ==
    LET places == IF newer >= DiscoverCap THEN 0 ELSE DiscoverCap - newer
    IN  Slice(SortByMtimeDesc(existing), places)

\* isSkillManagerSession: false when the file cannot be read
isSkillManagerSession(t, existing, k) == t \in existing /\ k[t] = "self"

\* isSubagentSession looks at the file name only
isSubagentSession(t, k) == k[t] = "agent"

\* isMinimalTranscript: false when the file cannot be read
isMinimalTranscript(t, existing, k) == t \in existing /\ k[t] = "minimal"

\* mutant: a failed transcript is offered again
QualifiesRetryFailed(t, st, existing, k) ==
    /\ \/ t \notin DOMAIN st.transcripts
       \/ st.transcripts[t].status = "failed"
    /\ ~isSkillManagerSession(t, existing, k)
    /\ ~isSubagentSession(t, k)
    /\ ~isMinimalTranscript(t, existing, k)

\* filterUnanalyzed: the conditions under which a transcript is pushed
Qualifies(t, st, existing, k) ==
    /\ t \notin DOMAIN st.transcripts
    /\ ~isSkillManagerSession(t, existing, k)
    /\ ~isSubagentSession(t, k)
    /\ ~isMinimalTranscript(t, existing, k)

\* mutant: the loop stops one transcript late
LimitReachedLate(result, limit) == Len(result) > limit

\* filterUnanalyzed: if (result.length >= limit) break
LimitReached(result, limit) == Len(result) >= limit

RECURSIVE FilterFrom(_, _, _, _, _, _, _)
FilterFrom(ts, i, result, st, limit, existing, k) ==
    IF i > Len(ts) THEN result
    ELSE IF Qualifies(ts[i], st, existing, k)
         THEN LET r == Append(result, ts[i])
              IN  IF LimitReached(r, limit) THEN r
                  ELSE FilterFrom(ts, i + 1, r, st, limit, existing, k)
         ELSE FilterFrom(ts, i + 1, result, st, limit, existing, k)

filterUnanalyzed(ts, st, limit, existing, k) ==
    FilterFrom(ts, 1, <<>>, st, limit, existing, k)

\* ------------------------------------------------------------------------
\* Skill names and their similarity (scripts/similarity.js)
\* ------------------------------------------------------------------------

\* elements of a sequence
Range(s) == {s[i] : i \in 1..Len(s)}

\* the names of the skills, each as the tokens name.split('-') yields:
\* two names that match strictly, and a shorter one that shares only two
\* leading tokens with them
SkillNames ==
    { <<"rust", "test", "api", "old">>,
      <<"rust", "test", "api", "new">>,
      <<"rust", "test">> }

\* jaccardSimilarity: intersection.length and union.size of the token sets
JaccardNum(name1, name2) == Cardinality(Range(name1) \cap Range(name2))

JaccardDen(name1, name2) == Cardinality(Range(name1) \cup Range(name2))

\* jaccardSimilarity(name1, name2) >= percent / 100
JaccardAtLeast(name1, name2, percent) ==
    100 * JaccardNum(name1, name2) >= percent * JaccardDen(name1, name2)

\* jaccardSimilarity(a1, a2) > jaccardSimilarity(b1, b2)
JaccardGreater(a1, a2, b1, b2) ==
    JaccardNum(a1, a2) * JaccardDen(b1, b2)
        > JaccardNum(b1, b2) * JaccardDen(a1, a2)

RECURSIVE PrefixFrom(_, _, _)
PrefixFrom(parts1, parts2, i) ==
    IF i > Len(parts1) \/ i > Len(parts2) THEN i - 1
    ELSE IF parts1[i] = parts2[i] THEN PrefixFrom(parts1, parts2, i + 1)
    ELSE i - 1

\* prefixTokenCount: leading tokens shared, up to the first difference
prefixTokenCount(name1, name2) == PrefixFrom(name1, name2, 1)

\* findSimilarSkillsStrict: jaccard >= 0.30
StrictMinJaccard == 30

\* findSimilarSkillsStrict: prefix >= 3
StrictMinPrefix == 3

\* mutant: one of the two conditions is enough
IsStrictMatchEither(proposedName, name) ==
    \/ JaccardAtLeast(proposedName, name, StrictMinJaccard)
    \/ prefixTokenCount(proposedName, name) >= StrictMinPrefix

\* mutant: the prefix condition is left out
IsStrictMatchNoPrefix(proposedName, name) ==
    JaccardAtLeast(proposedName, name, StrictMinJaccard)

\* findSimilarSkillsStrict: if (jaccard >= 0.30 && prefix >= 3)
IsStrictMatch(proposedName, name) ==
    /\ JaccardAtLeast(proposedName, name, StrictMinJaccard)
    /\ prefixTokenCount(proposedName, name) >= StrictMinPrefix

\* matches.sort((a, b) => b.jaccard - a.jaccard): a stable sort, so among
\* equal scores the order of existingNames is kept
RECURSIVE SortByJaccardDesc(_, _)
SortByJaccardDesc(proposedName, names) ==
    IF names = <<>> THEN <<>>
    ELSE LET best == CHOOSE i \in 1..Len(names) :
                        /\ \A j \in 1..Len(names) :
                              ~JaccardGreater(proposedName, names[j],
                                              proposedName, names[i])
                        /\ \A j \in 1..(i - 1) :
                              JaccardGreater(proposedName, names[i],
                                             proposedName, names[j])
             rest == [j \in 1..(Len(names) - 1) |->
                         IF j < best THEN names[j] ELSE names[j + 1]]
         IN  <<names[best]>> \o SortByJaccardDesc(proposedName, rest)

\* findSimilarSkillsStrict(proposedName, existingNames): the names of the
\* matches, best first
findSimilarSkillsStrict(proposedName, existingNames) ==
    LET Match(name) == IsStrictMatch(proposedName, name)
    IN  SortByJaccardDesc(proposedName, SelectSeq(existingNames, Match))

\* findSimilarSkillsWide: jaccard >= 0.40
WideMinJaccard == 40

\* mutant: the second way to match, by prefix, is left out
IsWideMatchJaccardOnly(proposedName, name) ==
    JaccardAtLeast(proposedName, name, WideMinJaccard)

\* findSimilarSkillsWide:
\* if (jaccard >= 0.40 || (jaccard >= 0.30 && prefix >= 3))
IsWideMatch(proposedName, name) ==
    \/ JaccardAtLeast(proposedName, name, WideMinJaccard)
    \/ /\ JaccardAtLeast(proposedName, name, StrictMinJaccard)
       /\ prefixTokenCount(proposedName, name) >= StrictMinPrefix

\* findSimilarSkillsWide(proposedName, existingNames): the names of the
\* matches, best first
findSimilarSkillsWide(proposedName, existingNames) ==
    LET Match(name) == IsWideMatch(proposedName, name)
    IN  SortByJaccardDesc(proposedName, SelectSeq(existingNames, Match))

\* ------------------------------------------------------------------------
\* The skills directory and the holding area (scripts/usage-tracker.js)
\* ------------------------------------------------------------------------

\* largest threshold retireUnusedSkills is called with
MaxThreshold == 1

\* largest sessions_since_use of a skill: one over the largest threshold
MaxSessions == MaxThreshold + 1

\* a skill directory: the usage fields of the frontmatter of its SKILL.md
\* and the names of the skills whose content was consolidated into its
\* documents
TrackedSkillDir(sessions, count, last, merged) ==
    [kind |-> "skill", sessions_since_use |-> sessions, usage_count |-> count,
     last_used |-> last, merged |-> merged]

\* a skill directory that was never found in a transcript
SkillDir(sessions, merged) == TrackedSkillDir(sessions, 0, "null", merged)

\* a directory of the holding area; a retired skill keeps its documents
RetiredDir(merged) == [kind |-> "retired", merged |-> merged]

\* attemptConsolidation returns null
NoTarget == <<>>

\* the base name of the skill directory is used as it is
NoSuffix == ""

\* `-${timestamp}`: the date of today, as new Date() gives it, in 8 digits
DateSuffix == "-YYYYMMDD"

\* path.join(retiredDir, targetName)
TargetPath(name, suffix) == [base |-> name, suffix |-> suffix]

TargetPaths == {TargetPath(n, x) : n \in SkillNames, x \in {NoSuffix, DateSuffix}}

\* fs.existsSync of a skill directory
Active(name) == skills[name] # Missing

\* retireUnusedSkills is not running
NoPass ==
    /\ rpc = "idle"
    /\ snapshot = <<>>
    /\ ri = 1
    /\ retirementSessions = 0
    /\ retired = <<>>
    /\ consolidated = <<>>
    /\ warned = {}

\* no similarity search has been called
NoSearch ==
    /\ simName = <<>>
    /\ simExisting = <<>>
    /\ called = {}
    /\ strictMatches = <<>>
    /\ wideMatches = <<>>

\* loadConfig: parseInt(process.env.SKILL_MANAGER_TRUNCATE_LINES, 10) || 30
DefaultTruncateLines == 30

\* a line of a text: its position in the payload it came from (0 for a line
\* truncateText adds) and its length in characters
Line(no, chars) ==
    [kind |-> "line", no |-> no, chars |-> chars, count |-> 0, unit |-> ""]

\* '': the empty line truncateText puts around the marker
Blank == Line(0, 0)

\* `... [truncated ${truncatedCount} lines] ...`
Marker(truncatedCount) ==
    [kind |-> "marker", no |-> 0, chars |-> 0, count |-> truncatedCount,
     unit |-> "lines"]

\* a content item: its type, where its text sits (item.content as a string,
\* a text part or another part of an array item.content) and the lines of
\* that text
Item(type, shape, text) == [type |-> type, shape |-> shape, text |-> text]

\* no content item is being processed
NoItem ==
    /\ item = Item("text", "string", <<Line(1, 0)>>)
    /\ processedItem = item
    /\ itemDone = FALSE

\* preprocessTranscript is not running
NoPreprocess ==
    /\ inputLines = <<>>
    /\ ppc = "idle"
    /\ ppi = 1
    /\ outputLines = <<>>
    /\ outputFile = <<>>

\* trackUsageInTranscript is not running
NoTracking ==
    /\ transcriptContent = {}
    /\ tpc = "idle"
    /\ tracked = <<>>
    /\ ti = 1
    /\ skillsFound = <<>>

\* the configuration of a run: SKILL_MANAGER_TRUNCATE_LINES is not set,
\* SKILL_MANAGER_COUNT is BatchSize
DefaultOptions ==
    /\ truncateLines = DefaultTruncateLines
    /\ transcriptCount = BatchSize

\* last millisecond of a run
MaxClock == 2

\* `preprocessed-transcript-${Date.now()}-${process.pid}.jsonl`
TmpName(ms, pid) == [ms |-> ms, pid |-> pid]

\* fs.writeFileSync(outputPath, ...): the file is created or overwritten
writeFileSync(dir, path, data) ==
    [n \in DOMAIN dir \cup {path} |-> IF n = path THEN data ELSE dir[n]]

\* preprocessTranscript has not been called
NoTmp ==
    /\ clock = 0
    /\ tmpDir = <<>>
    /\ calls = <<>>

\* no mark function is called on its own
NoMark ==
    /\ markInput = initialState
    /\ markPath = 1
    /\ markCalled = "none"
    /\ markReturned = initialState

\* no library function is being exercised
LibIdle ==
    /\ NoSearch
    /\ DefaultOptions
    /\ NoItem
    /\ NoPreprocess
    /\ NoTmp
    /\ NoTracking
    /\ NoMark

\* no skill has been created, nothing has been retired
NoSkillsYet ==
    /\ skills = [n \in SkillNames |-> Missing]
    /\ holding = [t \in TargetPaths |-> Missing]
    /\ NoPass

\* ------------------------------------------------------------------------
\* Initial state
\* ------------------------------------------------------------------------

envVars == <<kind, files, bulk>>

lockVars == <<lock, pidFile, epoch>>

fileVars == <<stateFile, tmpFile, initFd>>

mainVars == <<transcripts, state, unanalyzed, idx, failedIdx, prior>>

ptVars == <<currentState, inProgressState, newState, term>>

childVars == <<ppFile, analyzer>>

acqVars == <<lockAcquired, sawFree, acqEpoch>>

\* the transcripts on disk: all ordinary, or one of them of another kind
KindChoices ==
    {k \in [Transcripts -> Kinds] :
        Cardinality({t \in Transcripts : k[t] # "normal"}) <= 1}

\* analyzed.json before the first run: absent, damaged or an empty snapshot
StartContents == {Missing, Garbage, Json(initialState)}

InitRun ==
    /\ pc = [p \in Procs |-> "idle"]
    /\ kind \in KindChoices
    /\ files = Transcripts
    /\ stateFile \in StartContents
    /\ tmpFile = [p \in Procs |-> Missing]
    /\ lock = None
    /\ pidFile = None
    /\ initFd = {}
    /\ ppFile = [p \in Procs |-> FALSE]
    /\ analyzer = [p \in Procs |-> {}]
    /\ transcripts = [p \in Procs |-> <<>>]
    /\ state = [p \in Procs |-> initialState]
    /\ unanalyzed = [p \in Procs |-> <<>>]
    /\ idx = [p \in Procs |-> 1]
    /\ failedIdx = [p \in Procs |-> {}]
    /\ currentState = [p \in Procs |-> initialState]
    /\ inProgressState = [p \in Procs |-> initialState]
    /\ newState = [p \in Procs |-> initialState]
    /\ term = [p \in Procs |-> NoTerm]
    /\ error = [p \in Procs |-> None]
    /\ lockAcquired = [p \in Procs |-> None]
    /\ sawFree = [p \in Procs |-> FALSE]
    /\ acqEpoch = [p \in Procs |-> 0]
    /\ epoch = 0
    /\ processed = {}
    /\ prior = [p \in Procs |-> {}]

\* the runs of main over a directory of NumTranscripts transcripts
InitMain == InitRun /\ bulk = 0

Init == InitMain /\ NoSkillsYet /\ LibIdle

\* ------------------------------------------------------------------------
\* main(): start-up, initStateFile, discovery, filtering
\* ------------------------------------------------------------------------

Terminated == {"idle", "done", "thrown", "crashed"}

\* the transcript the for loop of main is at
Cur(p) == unanalyzed[p][idx[p]]

\* the locals of processTranscript go out of scope
LeavePt(p) ==
    /\ currentState' = [currentState EXCEPT ![p] = initialState]
    /\ inProgressState' = [inProgressState EXCEPT ![p] = initialState]
    /\ newState' = [newState EXCEPT ![p] = initialState]
    /\ term' = [term EXCEPT ![p] = NoTerm]

\* the locals of main go out of scope
LeaveMain(p) ==
    /\ transcripts' = [transcripts EXCEPT ![p] = <<>>]
    /\ state' = [state EXCEPT ![p] = initialState]
    /\ unanalyzed' = [unanalyzed EXCEPT ![p] = <<>>]
    /\ idx' = [idx EXCEPT ![p] = 1]
    /\ failedIdx' = [failedIdx EXCEPT ![p] = {}]
    /\ prior' = [prior EXCEPT ![p] = {}]

\* A process is triggered and enters main(): mkdirSync(stateDir) and
\* cleanupOldLogs leave the state file and the lock alone
Start(p) ==
    /\ pc[p] = "idle"
    /\ p = First \/ pc[First] # "idle"
    /\ pc' = [pc EXCEPT ![p] = "init_exists"]
    /\ UNCHANGED <<envVars, skillVars, processed, lockVars, fileVars, mainVars, ptVars, childVars,
                   acqVars, error>>

\* initStateFile: if (!fs.existsSync(stateFilePath))
InitExists(p) ==
    /\ pc[p] = "init_exists"
    /\ pc' = [pc EXCEPT ![p] =
                IF stateFile = Missing THEN "init_open" ELSE "init_read"]
    /\ UNCHANGED <<envVars, skillVars, processed, lockVars, fileVars, mainVars, ptVars,
                   childVars, acqVars, error>>

\* initStateFile: readFileSync + JSON.parse; the catch rewrites the file
InitRead(p) ==
    /\ pc[p] = "init_read"
    /\ pc' = [pc EXCEPT ![p] =
                IF Parses(stateFile) THEN "discover" ELSE "init_open"]
    /\ UNCHANGED <<envVars, skillVars, processed, lockVars, fileVars, mainVars, ptVars,
                   childVars, acqVars, error>>

\* fs.writeFileSync(stateFilePath, ...): open with O_CREAT | O_TRUNC
InitOpen(p) ==
    /\ pc[p] = "init_open"
    /\ stateFile' = Partial
    /\ initFd' = initFd \cup {p}
    /\ pc' = [pc EXCEPT ![p] = "init_write"]
    /\ UNCHANGED <<envVars, skillVars, processed, lockVars, tmpFile, mainVars, ptVars,
                   childVars, acqVars, error>>

\* fs.writeFileSync(stateFilePath, ...): write the data and close.  The data
\* reaches the canonical path unless a rename replaced the file meanwhile.
InitWrite(p) ==
    /\ pc[p] = "init_write"
    /\ stateFile' = IF p \in initFd THEN Json(initialState) ELSE stateFile
    /\ initFd' = initFd \ {p}
    /\ pc' = [pc EXCEPT ![p] = "discover"]
    /\ UNCHANGED <<envVars, skillVars, processed, lockVars, tmpFile, mainVars, ptVars,
                   childVars, acqVars, error>>

\* main: discoverTranscripts; return 0 when nothing is found
Discover(p) ==
    /\ pc[p] = "discover"
    /\ transcripts' = [transcripts EXCEPT ![p] =
                          discoverTranscripts(files, bulk)]
    /\ pc' = [pc EXCEPT ![p] =
                IF Len(transcripts'[p]) + bulk = 0 THEN "done"
                ELSE "read_state"]
    /\ UNCHANGED <<envVars, skillVars, processed, lockVars, fileVars, state, unanalyzed,
                   idx, failedIdx, prior, ptVars, childVars, acqVars, error>>

\* main: const state = readStateFile(stateFile)
\* null (file absent) makes filterUnanalyzed raise a TypeError
ReadState(p) ==
    /\ pc[p] = "read_state"
    /\ IF Parses(stateFile)
       THEN /\ state' = [state EXCEPT ![p] = stateFile.data]
            /\ prior' = [prior EXCEPT ![p] = processed]
            /\ pc' = [pc EXCEPT ![p] = "filter"]
            /\ UNCHANGED <<error, transcripts, unanalyzed, idx, failedIdx>>
       ELSE /\ error' = [error EXCEPT ![p] =
                            IF stateFile = Missing THEN "TypeError"
                            ELSE "SyntaxError"]
            /\ pc' = [pc EXCEPT ![p] = "thrown"]
            /\ LeaveMain(p)
    /\ UNCHANGED <<envVars, skillVars, processed, lockVars, fileVars, ptVars, childVars,
                   acqVars>>

\* main: filterUnanalyzed; return 0 when nothing is left
Filter(p) ==
    /\ pc[p] = "filter"
    /\ LET result == filterUnanalyzed(transcripts[p], state[p], transcriptCount,
                                      files, kind)
       IN  IF Len(result) = 0
           THEN /\ pc' = [pc EXCEPT ![p] = "done"]
                /\ LeaveMain(p)
                /\ UNCHANGED sawFree
           ELSE /\ pc' = [pc EXCEPT ![p] = "acquire"]
                /\ unanalyzed' = [unanalyzed EXCEPT ![p] = result]
                /\ transcripts' = [transcripts EXCEPT ![p] = <<>>]
                /\ sawFree' = [sawFree EXCEPT ![p] = (lock = None)]
                /\ prior' = [prior EXCEPT ![p] = {}]
                /\ UNCHANGED <<state, idx, failedIdx>>
    /\ UNCHANGED <<envVars, skillVars, processed, lockVars, fileVars, ptVars, childVars,
                   lockAcquired, acqEpoch, error>>

\* ------------------------------------------------------------------------
\* acquireLock / releaseLock
\* ------------------------------------------------------------------------

\* mutant: the loop is not wrapped in try/finally
UnwindNoFinally(inTry) == "thrown"

\* where an exception raised in main continues: the finally of the try block
\* when it is raised inside it, the rejection of main otherwise
Unwind(inTry) == IF inTry THEN "release" ELSE "thrown"

\* mutant: mkdirSync(lockDir, {recursive: true}) succeeds on an existing directory
MkdirRecursive(l) == TRUE

\* fs.mkdirSync(lockDir) without recursive: EEXIST when the directory exists
MkdirCreates(l) == l = None

\* acquireLock: fs.mkdirSync(lockDir); on EEXIST return false and main returns 0
AcquireMkdir(p) ==
    /\ pc[p] = "acquire"
    /\ acqEpoch' = [acqEpoch EXCEPT ![p] = epoch]
    /\ IF MkdirCreates(lock)
       THEN /\ lock' = p
            /\ pc' = [pc EXCEPT ![p] = "acquire_pid"]
            /\ UNCHANGED <<lockAcquired, mainVars>>
       ELSE /\ lockAcquired' = [lockAcquired EXCEPT ![p] = "false"]
            /\ pc' = [pc EXCEPT ![p] = "done"]
            /\ LeaveMain(p)
            /\ UNCHANGED lock
    /\ UNCHANGED <<envVars, skillVars, processed, pidFile, epoch, fileVars, ptVars, childVars,
                   sawFree, error>>

\* acquireLock: write the pid file, return true; main enters the try block.
\* With the directory gone the write fails with ENOENT, which acquireLock
\* rethrows; main calls it outside the try block
AcquirePid(p) ==
    /\ pc[p] = "acquire_pid"
    /\ IF lock = None
       THEN /\ error' = [error EXCEPT ![p] = "ENOENT"]
            /\ pc' = [pc EXCEPT ![p] = Unwind(FALSE)]
            /\ LeaveMain(p)
            /\ UNCHANGED <<pidFile, lockAcquired>>
       ELSE /\ pidFile' = p
            /\ lockAcquired' = [lockAcquired EXCEPT ![p] = "true"]
            /\ pc' = [pc EXCEPT ![p] = "loop"]
            /\ UNCHANGED <<mainVars, error>>
    /\ UNCHANGED <<envVars, skillVars, processed, lock, epoch, fileVars, ptVars, childVars,
                   sawFree, acqEpoch>>

\* mutant: fs.rmdirSync(lockDir) fails on the directory that holds the pid file
rmdirSync(l, pid) == IF pid = None THEN None ELSE l

\* fs.rmSync(lockDir, {recursive: true, force: true}): the directory is gone
\* afterwards, whether it existed, was empty or held the pid file
rmSync(l, pid) == None

\* releaseLock: rmSync inside try/catch, nothing is raised; main then returns
\* 0 or rethrows the pending error
ReleaseLock(p) ==
    /\ pc[p] = "release"
    /\ lock' = rmSync(lock, pidFile)
    /\ pidFile' = IF lock' = None THEN None ELSE pidFile
    /\ epoch' = epoch + 1
    /\ pc' = [pc EXCEPT ![p] = IF error[p] = None THEN "done" ELSE "thrown"]
    /\ LeaveMain(p)
    /\ UNCHANGED <<envVars, skillVars, processed, fileVars, ptVars, childVars, acqVars, error>>

\* ------------------------------------------------------------------------
\* main(): the batch loop, processTranscript, writeStateFile
\* ------------------------------------------------------------------------

\* mutant: processTranscript does not check that the file still exists
existsAlways(t, existing) == TRUE

\* processTranscript: fs.existsSync(transcriptPath)
existsSync(t, existing) == t \in existing

\* fs.readFileSync / fs.statSync of a transcript succeed
Readable(t, existing) == t \in existing

\* mutant: the loop stops at the first failed analysis
AfterResultBreak(exitCode) == IF exitCode = 0 THEN "loop" ELSE "release"

\* where the for loop continues once a transcript's result is recorded
AfterResult(exitCode) == "loop"

\* p raises e inside the try block of main
Throw(p, e) ==
    /\ error' = [error EXCEPT ![p] = e]
    /\ pc' = [pc EXCEPT ![p] = Unwind(TRUE)]
    /\ LeavePt(p)

\* main: for (const transcriptPath of unanalyzed) { readStateFile(...) ... }
LoopRead(p) ==
    /\ pc[p] = "loop"
    /\ IF idx[p] > Len(unanalyzed[p])
       THEN /\ pc' = [pc EXCEPT ![p] = "release"]
            /\ UNCHANGED <<ptVars, error>>
       ELSE IF Parses(stateFile)
       THEN /\ currentState' = [currentState EXCEPT ![p] = stateFile.data]
            /\ pc' = [pc EXCEPT ![p] = "pt_exists"]
            /\ UNCHANGED <<inProgressState, newState, term, error>>
       ELSE Throw(p, IF stateFile = Missing THEN "TypeError"
                     ELSE "SyntaxError")
    /\ UNCHANGED <<envVars, skillVars, processed, lockVars, fileVars, mainVars, childVars,
                   acqVars>>

\* mutant: preprocessTranscript is called before the in_progress record is
\* written
AfterMarkNoWrite == "preprocess"

\* processTranscript: writeStateFile(stateFile, inProgressState) comes right
\* after markTranscriptInProgress, before preprocessTranscript
AfterMark == "ws1_tmp"

\* processTranscript: skip a missing file, else mark it in_progress
PtExists(p) ==
    /\ pc[p] = "pt_exists"
    /\ IF ~existsSync(Cur(p), files)
       THEN /\ idx' = [idx EXCEPT ![p] = idx[p] + 1]
            /\ pc' = [pc EXCEPT ![p] = "loop"]
            /\ LeavePt(p)
       ELSE /\ inProgressState' = [inProgressState EXCEPT ![p] =
                    markTranscriptInProgress(currentState[p], Cur(p))]
            /\ newState' = [newState EXCEPT ![p] = inProgressState'[p]]
            /\ currentState' = [currentState EXCEPT ![p] = initialState]
            /\ pc' = [pc EXCEPT ![p] = AfterMark]
            /\ UNCHANGED <<idx, term>>
    /\ UNCHANGED <<envVars, skillVars, processed, lockVars, fileVars, transcripts, state,
                   unanalyzed, failedIdx, prior, childVars, acqVars, error>>

\* mutant: the catch rethrows without the clean-up
unlinkSyncSkipped(content) == content

\* writeStateFile, catch: fs.unlinkSync(tempFile) removes whatever the failed
\* call left of the temp file
unlinkSync(content) == Missing

\* writeStateFile: fs.writeFileSync(tempFile, JSON.stringify(state)); when it
\* fails the catch unlinks the temp file and rethrows
WriteTmp(p, from, to) ==
    /\ pc[p] = from
    /\ \/ /\ tmpFile' = [tmpFile EXCEPT ![p] = Json(newState[p])]
          /\ pc' = [pc EXCEPT ![p] = to]
          /\ UNCHANGED <<ptVars, error>>
       \/ /\ tmpFile' = [tmpFile EXCEPT ![p] = unlinkSync(Partial)]
          /\ Throw(p, "EIO")
    /\ UNCHANGED <<envVars, skillVars, processed, lockVars, stateFile, initFd, mainVars,
                   childVars, acqVars>>

\* writeStateFile: fs.renameSync(tempFile, stateFilePath); the canonical path
\* now names the temp file's inode, descriptors of the old file are detached
Rename(p, from) ==
    /\ pc[p] = from
    /\ stateFile' = tmpFile[p]
    /\ initFd' = {}
    /\ tmpFile' = [tmpFile EXCEPT ![p] = Missing]
    /\ UNCHANGED <<envVars, skillVars, lockVars, childVars, acqVars, error>>

\* writeStateFile: fs.renameSync fails; the catch unlinks the temp file
RenameFails(p, from) ==
    /\ pc[p] = from
    /\ tmpFile' = [tmpFile EXCEPT ![p] = unlinkSync(tmpFile[p])]
    /\ Throw(p, "EIO")
    /\ UNCHANGED <<envVars, skillVars, processed, lockVars, stateFile, initFd, mainVars,
                   childVars, acqVars>>

\* processTranscript: writeStateFile(stateFile, inProgressState)
WriteInProgressTmp(p) == WriteTmp(p, "ws1_tmp", "ws1_rename")

WriteInProgressRename(p) ==
    \/ /\ Rename(p, "ws1_rename")
       /\ pc' = [pc EXCEPT ![p] = "preprocess"]
       /\ UNCHANGED <<mainVars, ptVars, processed>>
    \/ RenameFails(p, "ws1_rename")

\* preprocessTranscript: read the transcript, write the preprocessed temp file
Preprocess(p) ==
    /\ pc[p] = "preprocess"
    /\ IF Readable(Cur(p), files)
       THEN /\ ppFile' = [ppFile EXCEPT ![p] = TRUE]
            /\ pc' = [pc EXCEPT ![p] = "stat"]
            /\ UNCHANGED <<ptVars, error>>
       ELSE /\ Throw(p, "ENOENT")
            /\ UNCHANGED ppFile
    /\ UNCHANGED <<envVars, skillVars, processed, lockVars, fileVars, mainVars, analyzer,
                   acqVars>>

\* processTranscript: fs.statSync(transcriptPath).size for the log line
Stat(p) ==
    /\ pc[p] = "stat"
    /\ IF Readable(Cur(p), files)
       THEN /\ pc' = [pc EXCEPT ![p] = "spawn"]
            /\ UNCHANGED <<ptVars, error>>
       ELSE Throw(p, "ENOENT")
    /\ UNCHANGED <<envVars, skillVars, processed, lockVars, fileVars, mainVars, childVars,
                   acqVars>>

\* mutant: runAnalysis is called without await, the loop goes on at once
AfterSpawnNoAwait == "loop"

\* exitCode = (await runAnalysis(...)).exitCode: processTranscript is suspended
\* until the child's 'close' event
AfterSpawn == "await"

\* runAnalysis: spawn the analyzer child on the preprocessed file
Spawn(p) ==
    /\ pc[p] = "spawn"
    /\ analyzer' = [analyzer EXCEPT ![p] = {Cur(p)}]
    /\ pc' = [pc EXCEPT ![p] = AfterSpawn]
    /\ UNCHANGED <<envVars, skillVars, processed, lockVars, fileVars, mainVars, ptVars,
                   ppFile, acqVars, error>>

\* the child closes: runAnalysis resolves, the finally unlinks the temp file,
\* processTranscript builds the completed or failed snapshot
AnalyzerClose(p) ==
    /\ pc[p] = "await"
    /\ \E tm \in Terminations :
          LET exitCode == CloseExitCode(tm)
          IN  /\ term' = [term EXCEPT ![p] = tm]
              /\ newState' = [newState EXCEPT ![p] =
                    IF exitCode = 0
                    THEN markTranscriptCompleted(inProgressState[p], Cur(p))
                    ELSE markTranscriptFailed(inProgressState[p], Cur(p),
                                              exitCode)]
              /\ failedIdx' = [failedIdx EXCEPT ![p] =
                    IF exitCode = 0 THEN @ ELSE @ \cup {idx[p]}]
    /\ analyzer' = [analyzer EXCEPT ![p] = {}]
    /\ ppFile' = [ppFile EXCEPT ![p] = FALSE]
    /\ pc' = [pc EXCEPT ![p] = "ws2_tmp"]
    /\ UNCHANGED <<envVars, skillVars, processed, lockVars, fileVars, transcripts, state,
                   unanalyzed, idx, prior, currentState, inProgressState,
                   acqVars, error>>

\* the runAnalysis callback rejects; the finally still unlinks the temp file
AnalysisThrows(p) ==
    /\ pc[p] = "await"
    /\ analyzer' = [analyzer EXCEPT ![p] = {}]
    /\ ppFile' = [ppFile EXCEPT ![p] = FALSE]
    /\ Throw(p, "analysis")
    /\ UNCHANGED <<envVars, skillVars, processed, lockVars, fileVars, mainVars, acqVars>>

\* processTranscript: writeStateFile(stateFile, completedState | failedState)
WriteResultTmp(p) == WriteTmp(p, "ws2_tmp", "ws2_rename")

WriteResultRename(p) ==
    \/ /\ Rename(p, "ws2_rename")
       /\ pc' = [pc EXCEPT ![p] = AfterResult(CloseExitCode(term[p]))]
       /\ idx' = [idx EXCEPT ![p] = idx[p] + 1]
       /\ processed' = processed \cup (files \cap {Cur(p)})
       /\ LeavePt(p)
       /\ UNCHANGED <<transcripts, state, unanalyzed, failedIdx, prior>>
    \/ RenameFails(p, "ws2_rename")

\* ------------------------------------------------------------------------
\* Environment
\* ------------------------------------------------------------------------

\* the process dies (kill -9, power loss) wherever it is; what it left on
\* disk stays
Crash(p) ==
    /\ pc[p] \notin Terminated
    /\ pc' = [pc EXCEPT ![p] = "crashed"]
    /\ initFd' = initFd \ {p}
    /\ analyzer' = [analyzer EXCEPT ![p] = {}]
    /\ LeaveMain(p)
    /\ LeavePt(p)
    /\ UNCHANGED <<envVars, skillVars, processed, lockVars, stateFile, tmpFile, ppFile,
                   acqVars, error>>

\* a transcript file is removed by its owner
DeleteTranscript(t) ==
    /\ t \in files
    /\ Cardinality(Transcripts \ files) < MaxDeletes
    /\ files' = files \ {t}
    /\ processed' = processed \ {t}
    /\ UNCHANGED <<pc, kind, bulk, skillVars, lockVars, fileVars, mainVars, ptVars,
                   childVars, acqVars, error>>

Next ==
    \/ \E p \in Procs :
          \/ Start(p)
          \/ InitExists(p)
          \/ InitRead(p)
          \/ InitOpen(p)
          \/ InitWrite(p)
          \/ Discover(p)
          \/ ReadState(p)
          \/ Filter(p)
          \/ AcquireMkdir(p)
          \/ AcquirePid(p)
          \/ LoopRead(p)
          \/ PtExists(p)
          \/ WriteInProgressTmp(p)
          \/ WriteInProgressRename(p)
          \/ Preprocess(p)
          \/ Stat(p)
          \/ Spawn(p)
          \/ AnalyzerClose(p)
          \/ AnalysisThrows(p)
          \/ WriteResultTmp(p)
          \/ WriteResultRename(p)
          \/ ReleaseLock(p)
          \/ Crash(p)
    \/ \E t \in Transcripts : DeleteTranscript(t)

Spec == Init /\ [][Next]_vars

\* ------------------------------------------------------------------------
\* acquireLock and releaseLock called directly, in any order
\* ------------------------------------------------------------------------

\* releaseLock calls a run of the lock functions makes at most
MaxReleases == 2

\* between two calls: nothing called yet, or the last call has returned
\* ("loop" is where acquireLock returns true to) or has thrown
BetweenCalls == {"idle", "done", "loop", "thrown"}

InitLock ==
    /\ Init
    /\ kind = [t \in Transcripts |-> "normal"]
    /\ stateFile = Json(initialState)

\* a caller invokes acquireLock(stateDir)
CallAcquire(p) ==
    /\ pc[p] \in BetweenCalls
    /\ epoch < MaxReleases
    /\ pc' = [pc EXCEPT ![p] = "acquire"]
    /\ lockAcquired' = [lockAcquired EXCEPT ![p] = None]
    /\ error' = [error EXCEPT ![p] = None]
    /\ UNCHANGED <<envVars, skillVars, processed, lockVars, fileVars, mainVars, ptVars, childVars,
                   sawFree, acqEpoch>>

\* a caller invokes releaseLock(stateDir), whoever created the directory
CallRelease(p) ==
    /\ pc[p] \in BetweenCalls
    /\ epoch < MaxReleases
    /\ pc' = [pc EXCEPT ![p] = "release"]
    /\ error' = [error EXCEPT ![p] = None]
    /\ UNCHANGED <<envVars, skillVars, processed, lockVars, fileVars, mainVars, ptVars, childVars,
                   acqVars>>

NextLock ==
    \E p \in Procs :
        \/ CallAcquire(p)
        \/ CallRelease(p)
        \/ AcquireMkdir(p)
        \/ AcquirePid(p)
        \/ ReleaseLock(p)

SpecLock == InitLock /\ [][NextLock]_vars

\* ------------------------------------------------------------------------
\* Retirement passes (scripts/usage-tracker.js)
\* ------------------------------------------------------------------------

\* a skill directory as usage tracking leaves it
SkillDirs == {SkillDir(k, {}) : k \in 0..MaxSessions}

\* the holding areas earlier passes leave behind: a name with the date of
\* today is there only if the base name was taken when it was stored
HoldingAreas ==
    {h \in [TargetPaths -> {Missing, RetiredDir({})}] :
        \A n \in SkillNames :
            h[TargetPath(n, DateSuffix)] # Missing
                => h[TargetPath(n, NoSuffix)] # Missing}

\* no invocation of main is running; any skills, any holding area, no pass
InitRetire ==
    /\ InitMain
    /\ kind = [t \in Transcripts |-> "normal"]
    /\ stateFile = Json(initialState)
    /\ skills \in [SkillNames -> {Missing} \cup SkillDirs]
    /\ holding \in HoldingAreas
    /\ NoPass
    /\ LibIdle

\* the names of the skill directories that exist
ActiveNames == {n \in SkillNames : Active(n)}

\* the orders in which fs.readdirSync may list the directories in S
RECURSIVE Listings(_)
Listings(S) ==
    IF S = {} THEN {<<>>}
    ELSE UNION {{<<x>> \o l : l \in Listings(S \ {x})} : x \in S}

\* the holding area is the directory .retired inside the skills root
RetiredEntry == <<".retired">>

\* first tokens of the entries whose name begins with a dot
DotTokens == {".retired"}

\* fs.readdirSync(skillsDir): the skill directories, and the holding area
\* once something has been stored there
SkillsRootEntries ==
    ActiveNames \cup
        (IF \E t \in TargetPaths : holding[t] # Missing
         THEN {RetiredEntry} ELSE {})

\* entry.name.startsWith('.')
startsWithDot(entry) == entry[1] \in DotTokens

\* fs.existsSync(path.join(skillsDir, entry.name, 'SKILL.md')): the holding
\* area has subdirectories only
hasSkillFile(entry) == entry \in SkillNames /\ Active(entry)

\* getAllSkills: name and frontmatter of every listed directory that is not
\* hidden and has a SKILL.md, in the order of the listing
getAllSkills(listing) ==
    LET IsSkill(entry) == ~startsWithDot(entry) /\ hasSkillFile(entry)
        kept == SelectSeq(listing, IsSkill)
    IN  [i \in 1..Len(kept) |->
            [name |-> kept[i],
             sessions_since_use |-> skills[kept[i]].sessions_since_use,
             usage_count |-> skills[kept[i]].usage_count]]

\* getSessionsSinceUse: frontmatter.sessions_since_use || 0
getSessionsSinceUse(skill) == skill.sessions_since_use

\* mutant: a skill at the threshold is retired too
AtOrOverThreshold(sessionsSinceUse, threshold) == sessionsSinceUse >= threshold

\* retireUnusedSkills: if (sessionsSinceUse > retirementSessions)
OverThreshold(sessionsSinceUse, threshold) == sessionsSinceUse > threshold

\* attemptConsolidation: the best strict match among the names of the other
\* skills of the list it is given, null when there is none
attemptConsolidation(skill, activeSkills) ==
    LET names == [i \in 1..Len(activeSkills) |-> activeSkills[i].name]
        Other(name) == name # skill.name
        matches == findSimilarSkillsStrict(skill.name, SelectSeq(names, Other))
    IN  IF matches = <<>> THEN NoTarget ELSE matches[1]

\* appendConsolidatedContent: each document of the target that exists gets
\* the extracted content appended; nothing is written when they are gone
appendConsolidatedContent(dirs, target, sourceSkillName) ==
    IF dirs[target] # Missing
    THEN [dirs EXCEPT ![target].merged = @ \cup {sourceSkillName}]
    ELSE dirs

\* retireUnusedSkills: the target path, with the date appended when the base
\* name is taken in the holding area
TargetOf(name) ==
    IF holding[TargetPath(name, NoSuffix)] # Missing
    THEN TargetPath(name, DateSuffix)
    ELSE TargetPath(name, NoSuffix)

\* fs.renameSync(skill.dirPath, targetPath) fails when the skill directory is
\* gone and when the target is an existing directory that is not empty
RenameFailsOnDisk(name, targetPath) ==
    ~Active(name) \/ holding[targetPath] # Missing

\* err.message of the failed fs.renameSync
RenameError(name, ioError) ==
    IF ioError THEN "EACCES"
    ELSE IF ~Active(name) THEN "ENOENT"
    ELSE "ENOTEMPTY"

\* logFn(`Warning: Failed to retire skill ${skill.name}: ${err.message}`)
Warning(name, message) == [name |-> name, message |-> message]

\* the skills a warning of the pass names
WarnedNames == {w.name : w \in warned}

\* mutant: the skill directory is copied, the original stays
Copied(dirs, name) == dirs

\* fs.renameSync(skill.dirPath, targetPath): the directory leaves the skills
Moved(dirs, name) == [dirs EXCEPT ![name] = Missing]

\* mutant: the error of a failed move leaves the loop
AfterMoveErrorRethrow == "thrown"

\* catch (err) { logFn(`Warning: ...`) }: the loop goes on
AfterMoveError == "loop"

\* retireUnusedSkills(retirementSessions, logFn) is called: getAllSkills
StartPass(threshold, listing) ==
    /\ rpc = "idle"
    /\ retirementSessions' = threshold
    /\ snapshot' = getAllSkills(listing)
    /\ ri' = 1
    /\ retired' = <<>>
    /\ consolidated' = <<>>
    /\ warned' = {}
    /\ rpc' = "loop"
    /\ UNCHANGED <<pipelineVars, libVars, skills, holding>>

\* one round of the for loop over a skill that is not over the threshold
RetireSkip ==
    /\ rpc = "loop"
    /\ ri <= Len(snapshot)
    /\ ~OverThreshold(getSessionsSinceUse(snapshot[ri]), retirementSessions)
    /\ ri' = ri + 1
    /\ UNCHANGED <<pipelineVars, libVars, skills, holding, rpc, snapshot,
                   retirementSessions, retired, consolidated, warned>>

\* one round of the for loop over a skill that is over the threshold:
\* attemptConsolidation, the choice of the target path, the move.  ioError
\* says that renameSync fails for a reason outside the model (EACCES, EXDEV)
Retire(ioError) ==
    /\ rpc = "loop"
    /\ ri <= Len(snapshot)
    /\ LET skill == snapshot[ri]
           consolidatedInto == attemptConsolidation(skill, snapshot)
           dirs == IF consolidatedInto = NoTarget THEN skills
                   ELSE appendConsolidatedContent(skills, consolidatedInto,
                                                  skill.name)
           targetPath == TargetOf(skill.name)
       IN  /\ OverThreshold(getSessionsSinceUse(skill), retirementSessions)
           /\ consolidated' =
                 IF consolidatedInto = NoTarget THEN consolidated
                 ELSE Append(consolidated,
                             [from |-> skill.name, into |-> consolidatedInto])
           /\ IF ioError \/ RenameFailsOnDisk(skill.name, targetPath)
              THEN /\ skills' = dirs
                   /\ warned' = warned \cup
                         {Warning(skill.name, RenameError(skill.name, ioError))}
                   /\ rpc' = AfterMoveError
                   /\ UNCHANGED <<holding, retired>>
              ELSE /\ holding' = [holding EXCEPT ![targetPath] =
                                     RetiredDir(dirs[skill.name].merged)]
                   /\ skills' = Moved(dirs, skill.name)
                   /\ retired' = Append(retired, skill.name)
                   /\ UNCHANGED <<warned, rpc>>
    /\ ri' = ri + 1
    /\ UNCHANGED <<pipelineVars, libVars, snapshot, retirementSessions>>

RetireMove == Retire(FALSE)

RetireMoveIoError == Retire(TRUE)

\* the loop is over: return { retired, consolidated }
EndPass ==
    /\ rpc = "loop"
    /\ ri > Len(snapshot)
    /\ rpc' = "returned"
    /\ UNCHANGED <<pipelineVars, libVars, skills, holding, snapshot, ri,
                   retirementSessions, retired, consolidated, warned>>

\* the caller has taken the result; the locals of the pass are gone
LeavePass ==
    /\ rpc \in {"returned", "thrown"}
    /\ rpc' = "idle"
    /\ snapshot' = <<>>
    /\ ri' = 1
    /\ retirementSessions' = 0
    /\ retired' = <<>>
    /\ consolidated' = <<>>
    /\ warned' = {}
    /\ UNCHANGED <<pipelineVars, libVars, skills, holding>>

NextRetire ==
    \/ \E threshold \in 0..MaxThreshold :
          \E listing \in Listings(SkillsRootEntries) :
              StartPass(threshold, listing)
    \/ RetireSkip
    \/ RetireMove
    \/ RetireMoveIoError
    \/ EndPass
    \/ LeavePass

SpecRetire == InitRetire /\ [][NextRetire]_vars

\* ------------------------------------------------------------------------
\* The similarity searches, each called once on the same inputs
\* ------------------------------------------------------------------------

\* longest candidate list
MaxCandidates == 2

\* skill names as their tokens.  Against a-b-c-d the others score: 0.60 with
\* 3 leading tokens; 1.00 with none; 0.30 with 3; 0.27 with 3; 0.30 with
\* none; 0.50 with 2; 0.40 with none; 0 with none
CandidateNames ==
    { <<"a", "b", "c", "d">>,
      <<"a", "b", "c", "e">>,
      <<"d", "c", "b", "a">>,
      <<"a", "b", "c", "e", "f", "g", "h", "i", "j">>,
      <<"a", "b", "c", "e", "f", "g", "h", "i", "j", "k">>,
      <<"b", "a", "c", "e", "f", "g", "h", "i", "j">>,
      <<"a", "b">>,
      <<"b", "a", "e">>,
      <<"x", "y">> }

\* the candidate lists: any names, repeated or not, in any order
CandidateLists ==
    UNION {[1..n -> CandidateNames] : n \in 0..MaxCandidates}

\* nothing else runs; any name, any candidate list, no search called yet
InitSimilar ==
    /\ InitMain
    /\ kind = [t \in Transcripts |-> "normal"]
    /\ stateFile = Json(initialState)
    /\ NoSkillsYet
    /\ simName \in CandidateNames
    /\ simExisting \in CandidateLists
    /\ called = {}
    /\ strictMatches = <<>>
    /\ wideMatches = <<>>
    /\ DefaultOptions
    /\ NoItem
    /\ NoPreprocess
    /\ NoTmp
    /\ NoTracking
    /\ NoMark

\* findSimilarSkillsStrict(proposedName, existingNames) is called
CallStrict ==
    /\ "strict" \notin called
    /\ called' = called \cup {"strict"}
    /\ strictMatches' = findSimilarSkillsStrict(simName, simExisting)
    /\ UNCHANGED <<exceptSimilar, simName, simExisting, wideMatches>>

\* findSimilarSkillsWide(proposedName, existingNames) is called
CallWide ==
    /\ "wide" \notin called
    /\ called' = called \cup {"wide"}
    /\ wideMatches' = findSimilarSkillsWide(simName, simExisting)
    /\ UNCHANGED <<exceptSimilar, simName, simExisting, strictMatches>>

NextSimilar == CallStrict \/ CallWide

SpecSimilar == InitSimilar /\ [][NextSimilar]_vars

\* ------------------------------------------------------------------------
\* Truncation of one content item (scripts/trigger.js)
\* ------------------------------------------------------------------------

\* most lines of a payload
MaxLines == 5

\* largest truncateLines
MaxTruncateLines == 2

\* lengths of a line, in characters: an ordinary line and two long ones
LineLengths == {80, 50001, 100000}

\* the payloads: text.split('\n') has one element at least
Texts ==
    UNION {{[i \in 1..n |-> Line(i, c[i])] : c \in [1..n -> LineLengths]} :
              n \in 1..MaxLines}

\* tool results and other items, the text in each of the places it can be
Items ==
    {Item(type, shape, text) :
        type \in {"tool_result", "text"},
        shape \in {"string", "text_part", "other_part"},
        text \in Texts}

\* lines.slice(0, n)
sliceFirst(lines, n) == SubSeq(lines, 1, n)

\* lines.slice(-n); -0 is 0, and slice(0) is the whole array
sliceLast(lines, n) ==
    IF n = 0 THEN lines ELSE SubSeq(lines, Len(lines) - n + 1, Len(lines))

\* mutant: a payload of exactly 2K lines is truncated too
BelowThreshold(length, threshold) == length < threshold

\* truncateText: if (lines.length <= threshold) return text
WithinThreshold(length, threshold) == length <= threshold

\* truncateText(text, truncateLines), text and result as their lines
truncateText(text, truncateLines_) ==
    LET lines == text
        threshold == truncateLines_ * 2
        truncatedCount == Len(lines) - threshold
        firstLines == sliceFirst(lines, truncateLines_)
        lastLines == sliceLast(lines, truncateLines_)
    IN  IF WithinThreshold(Len(lines), threshold) THEN text
        ELSE firstLines \o <<Blank, Marker(truncatedCount), Blank>> \o lastLines

\* processContentItem(item, truncateLines): the text of a tool result is
\* truncated where it is a string content or the text of a text part
processContentItem(item_, truncateLines_) ==
    IF item_.type # "tool_result" THEN item_
    ELSE IF item_.shape \in {"string", "text_part"}
    THEN [item_ EXCEPT !.text = truncateText(@, truncateLines_)]
    ELSE item_

\* nothing else runs; any item, any truncateLines from 1 on
InitItem ==
    /\ InitMain
    /\ kind = [t \in Transcripts |-> "normal"]
    /\ stateFile = Json(initialState)
    /\ NoSkillsYet
    /\ NoSearch
    /\ NoPreprocess
    /\ NoTmp
    /\ NoTracking
    /\ NoMark
    /\ truncateLines \in 1..MaxTruncateLines
    /\ transcriptCount = BatchSize
    /\ item \in Items
    /\ processedItem = item
    /\ itemDone = FALSE

\* processContentItem(item, truncateLines) is called
CallProcessContentItem ==
    /\ ~itemDone
    /\ itemDone' = TRUE
    /\ processedItem' = processContentItem(item, truncateLines)
    /\ UNCHANGED <<exceptItem, item>>

NextItem == CallProcessContentItem

SpecItem == InitItem /\ [][NextItem]_vars

\* ------------------------------------------------------------------------
\* preprocessTranscript, line by line (scripts/trigger.js)
\* ------------------------------------------------------------------------

\* most lines of a transcript
MaxInputLines == 3

\* processEntry: the fields it removes, message.role among them
RedundantFields ==
    {"userType", "isSidechain", "cwd", "version", "gitBranch", "message.role"}

\* the fields of a record of a transcript
RecordFields == {"type", "uuid", "message.content"} \cup RedundantFields

\* processEntry: the types it filters out
FilteredTypes == {"file-history-snapshot", "queue-operation"}

\* what JSON.parse yields for a line: null, or an object with its type, its
\* fields and the items of message.content
Null == [isNull |-> TRUE, type |-> "", fields |-> {}, content |-> <<>>]

Entry(type, fields, content) ==
    [isNull |-> FALSE, type |-> type, fields |-> fields, content |-> content]

\* a tool result of three lines, and a plain text item
ToolResult ==
    Item("tool_result", "string", <<Line(1, 80), Line(2, 80), Line(3, 80)>>)

TextItem == Item("text", "string", <<Line(1, 80)>>)

Entries ==
    { Null,
      Entry("file-history-snapshot", RecordFields, <<>>),
      Entry("queue-operation", RecordFields, <<>>),
      Entry("assistant", RecordFields, <<TextItem>>),
      Entry("user", RecordFields, <<ToolResult>>) }

\* a line of the transcript: blank, not JSON, or JSON
InputLine(no, kind_, entry) == [no |-> no, kind |-> kind_, entry |-> entry]

InputLinesAt(no) ==
    {InputLine(no, "blank", Null), InputLine(no, "malformed", Null)}
        \cup {InputLine(no, "json", e) : e \in Entries}

\* the transcripts: every line in its place
InputFiles ==
    UNION {{f \in [1..n -> UNION {InputLinesAt(i) : i \in 1..n}] :
               \A i \in 1..n : f[i].no = i} : n \in 1..MaxInputLines}

\* !line.trim()
IsBlank(line) == line.kind = "blank"

\* JSON.parse(line) throws
ParseThrows(line) == line.kind = "malformed"

\* processEntry reads entry.type: a TypeError when the entry is null
ProcessEntryThrows(entry) == entry.isNull

\* processEntry returns null
IsFiltered(entry) == entry.type \in FilteredTypes

\* processEntry(entry, truncateLines) for an entry it keeps
processEntry(entry, truncateLines_) ==
    [entry EXCEPT
        !.fields = @ \ RedundantFields,
        !.content = [i \in 1..Len(@) |->
                        processContentItem(@[i], truncateLines_)]]

\* JSON.stringify(processed), with the line the record came from
OutputLine(no, rest) == [no |-> no, entry |-> rest]

\* nothing else runs; any transcript, any truncateLines from 1 on; the
\* call has read the file and split it
InitPreprocess ==
    /\ InitMain
    /\ kind = [t \in Transcripts |-> "normal"]
    /\ stateFile = Json(initialState)
    /\ NoSkillsYet
    /\ NoSearch
    /\ NoItem
    /\ NoTmp
    /\ NoTracking
    /\ NoMark
    /\ truncateLines \in 1..MaxTruncateLines
    /\ transcriptCount = BatchSize
    /\ inputLines \in InputFiles
    /\ ppc = "loop"
    /\ ppi = 1
    /\ outputLines = <<>>
    /\ outputFile = <<>>

\* one round of the for loop: what it does with the line
PpRound(skip, throws, push) ==
    /\ ppc = "loop"
    /\ ppi <= Len(inputLines)
    /\ LET line == inputLines[ppi]
       IN  \/ /\ skip
              /\ \/ IsBlank(line)
                 \/ ~IsBlank(line) /\ ParseThrows(line)
                 \/ /\ ~IsBlank(line) /\ ~ParseThrows(line)
                    /\ ~ProcessEntryThrows(line.entry)
                    /\ IsFiltered(line.entry)
              /\ ppi' = ppi + 1
              /\ UNCHANGED <<ppc, outputLines>>
           \/ /\ throws
              /\ ~IsBlank(line) /\ ~ParseThrows(line)
              /\ ProcessEntryThrows(line.entry)
              /\ ppc' = "thrown"
              /\ UNCHANGED <<ppi, outputLines>>
           \/ /\ push
              /\ ~IsBlank(line) /\ ~ParseThrows(line)
              /\ ~ProcessEntryThrows(line.entry)
              /\ ~IsFiltered(line.entry)
              /\ outputLines' =
                    Append(outputLines,
                           OutputLine(line.no,
                                      processEntry(line.entry, truncateLines)))
              /\ ppi' = ppi + 1
              /\ UNCHANGED ppc
    /\ UNCHANGED <<exceptPreprocess, inputLines, outputFile>>

\* continue: a blank line, a line JSON.parse rejects, a filtered entry
PpSkip == PpRound(TRUE, FALSE, FALSE)

\* processEntry throws and nothing in preprocessTranscript catches it
PpThrow == PpRound(FALSE, TRUE, FALSE)

\* outputLines.push(JSON.stringify(processed))
PpPush == PpRound(FALSE, FALSE, TRUE)

\* fs.writeFileSync(tmpFile, outputLines.join('\n')); return tmpFile
PpWrite ==
    /\ ppc = "loop"
    /\ ppi > Len(inputLines)
    /\ outputFile' = outputLines
    /\ tmpDir' = writeFileSync(tmpDir, TmpName(clock, First), Len(calls) + 1)
    /\ calls' = Append(calls, TmpName(clock, First))
    /\ ppc' = "returned"
    /\ UNCHANGED <<pipelineVars, retireVars, similarVars, optVars, markVars,
                   itemVars,
                   trackVars, clock, inputLines, ppi, outputLines>>

NextPreprocess == PpSkip \/ PpThrow \/ PpPush \/ PpWrite

SpecPreprocess == InitPreprocess /\ [][NextPreprocess]_vars

\* ------------------------------------------------------------------------
\* The temp files of several calls of preprocessTranscript
\* ------------------------------------------------------------------------

\* calls of preprocessTranscript in a run
MaxCalls == 3

\* nothing else runs; no call yet
InitTmp ==
    /\ InitMain
    /\ kind = [t \in Transcripts |-> "normal"]
    /\ stateFile = Json(initialState)
    /\ NoSkillsYet
    /\ LibIdle

\* a millisecond goes by
Tick ==
    /\ clock < MaxClock
    /\ clock' = clock + 1
    /\ UNCHANGED <<exceptTmp, tmpDir, calls>>

\* a process calls preprocessTranscript: whatever the transcript holds, the
\* output goes to the file named after Date.now() and process.pid, which is
\* created or overwritten, and the path is returned
PreprocessCall(pid) ==
    /\ Len(calls) < MaxCalls
    /\ tmpDir' = writeFileSync(tmpDir, TmpName(clock, pid), Len(calls) + 1)
    /\ calls' = Append(calls, TmpName(clock, pid))
    /\ UNCHANGED <<exceptTmp, clock>>

NextTmp ==
    \/ Tick
    \/ \E pid \in Procs : PreprocessCall(pid)

SpecTmp == InitTmp /\ [][NextTmp]_vars

\* ------------------------------------------------------------------------
\* Usage tracking over one transcript (scripts/usage-tracker.js)
\* ------------------------------------------------------------------------

\* new Date().toISOString().slice(0, 10) at the time of the call
Today == "today"

\* usage_count and last_used of a skill: never found, or found once before
UsageStates ==
    {[usage_count |-> 0, last_used |-> "null"],
     [usage_count |-> 1, last_used |-> "earlier"]}

\* the skill directories usage tracking finds
TrackedSkillDirs ==
    {TrackedSkillDir(k, u.usage_count, u.last_used, {}) :
        k \in 0..MaxSessions, u \in UsageStates}

\* createSkillPattern(skillName).test(transcriptContent): the name occurs
\* anywhere in the text, its tokens joined by hyphens or blanks; the text is
\* the set of its phrases, each a run of tokens
PatternOccurs(skillName, content) ==
    \E phrase \in content :
        \E k \in 1..Len(phrase) :
            /\ k + Len(skillName) - 1 <= Len(phrase)
            /\ SubSeq(phrase, k, k + Len(skillName) - 1) = skillName

\* mutant: a found skill keeps its sessions_since_use
FoundUpdateNoReset(dir, currentCount) ==
    [dir EXCEPT !.last_used = Today, !.usage_count = currentCount + 1]

\* updateSkillFrontmatter(skill.path, { last_used: today,
\*   usage_count: currentCount + 1, sessions_since_use: 0 })
FoundUpdate(dir, currentCount) ==
    [dir EXCEPT !.last_used = Today,
                !.usage_count = currentCount + 1,
                !.sessions_since_use = 0]

\* updateSkillFrontmatter(skill.path,
\*   { sessions_since_use: currentSessions + 1 })
NotFoundUpdate(dir, currentSessions) ==
    [dir EXCEPT !.sessions_since_use = currentSessions + 1]

\* nothing else runs; any skills, an empty holding area, any transcript
InitTrack ==
    /\ InitMain
    /\ kind = [t \in Transcripts |-> "normal"]
    /\ stateFile = Json(initialState)
    /\ skills \in [SkillNames -> {Missing} \cup TrackedSkillDirs]
    /\ holding = [t \in TargetPaths |-> Missing]
    /\ NoPass
    /\ NoSearch
    /\ DefaultOptions
    /\ NoItem
    /\ NoPreprocess
    /\ NoTmp
    /\ NoMark
    /\ transcriptContent \in SUBSET SkillNames
    /\ tpc = "idle"
    /\ tracked = <<>>
    /\ ti = 1
    /\ skillsFound = <<>>

\* what trackUsageInTranscript leaves alone besides the skills
exceptTrack ==
    <<pipelineVars, holding, rpc, snapshot, ri, retirementSessions, retired,
      consolidated, warned, similarVars, optVars, markVars,
      itemVars, ppVars, tmpVars,
      transcriptContent>>

\* trackUsageInTranscript(transcriptPath, logFn) is called: getAllSkills,
\* then the transcript is read; it returns at once when there is no skill
\* and when the transcript cannot be read
TrackStart(listing, readable) ==
    /\ tpc = "idle"
    /\ tracked' = getAllSkills(listing)
    /\ tpc' = IF tracked' = <<>> \/ ~readable THEN "returned" ELSE "loop"
    /\ UNCHANGED <<exceptTrack, skills, ti, skillsFound>>

\* one round of the for loop over a skill whose pattern is in the transcript
TrackFound ==
    /\ tpc = "loop"
    /\ ti <= Len(tracked)
    /\ LET skill == tracked[ti]
       IN  /\ PatternOccurs(skill.name, transcriptContent)
           /\ skillsFound' = Append(skillsFound, skill.name)
           /\ skills' = [skills EXCEPT ![skill.name] =
                            FoundUpdate(@, skill.usage_count)]
    /\ ti' = ti + 1
    /\ UNCHANGED <<exceptTrack, tpc, tracked>>

\* one round of the for loop over a skill whose pattern is not there
TrackNotFound ==
    /\ tpc = "loop"
    /\ ti <= Len(tracked)
    /\ LET skill == tracked[ti]
       IN  /\ ~PatternOccurs(skill.name, transcriptContent)
           /\ skills' = [skills EXCEPT ![skill.name] =
                            NotFoundUpdate(@, skill.sessions_since_use)]
    /\ ti' = ti + 1
    /\ UNCHANGED <<exceptTrack, tpc, tracked, skillsFound>>

\* return { skillsFound, updated: skillsFound.length }
TrackEnd ==
    /\ tpc = "loop"
    /\ ti > Len(tracked)
    /\ tpc' = "returned"
    /\ UNCHANGED <<exceptTrack, skills, tracked, ti, skillsFound>>

NextTrack ==
    \/ \E listing \in Listings(SkillsRootEntries) :
          \E readable \in BOOLEAN : TrackStart(listing, readable)
    \/ TrackFound
    \/ TrackNotFound
    \/ TrackEnd

SpecTrack == InitTrack /\ [][NextTrack]_vars

\* ------------------------------------------------------------------------
\* Properties
\* ------------------------------------------------------------------------

\* mutant: the catch of the script entry logs the error and exits with 0
ExitCodeAlwaysZero(e) == 0

\* script entry: main(...).catch(err => process.exit(1)); when main resolves
\* the process ends on its own with exit code 0
ExitCodeOf(e) == IF e = None THEN 0 ELSE 1

\* the exit code of a process whose main has resolved or rejected
ExitCode(p) == ExitCodeOf(error[p])

\* acquireLock has returned in process p
Returned(p) == lockAcquired[p] # None

\* p is between a successful acquireLock and the end of releaseLock
InBatch(p) ==
    pc[p] \in {"loop", "pt_exists", "ws1_tmp", "ws1_rename", "preprocess",
               "stat", "spawn", "await", "ws2_tmp", "ws2_rename", "release"}

\* p is inside writeStateFile for the record of the analyzer's result
WritingResult(p) == pc[p] \in {"ws2_tmp", "ws2_rename"}

\* the fields a record of each status consists of
FieldsOf(status) ==
    CASE status = "in_progress" -> {"status", "started_at"}
      [] status = "completed" -> {"status", "analyzed_at"}
      [] status = "failed" -> {"status", "failed_at", "exit_code"}

\* every record of a file content carries exactly the fields of its status
CleanContent(content) ==
    Parses(content) =>
        \A t \in DOMAIN content.data.transcripts :
            LET r == content.data.transcripts[t]
            IN  DOMAIN r = FieldsOf(r.status)

\* C1: two invocations that both reached acquireLock while no lock existed,
\* with no release between their attempts, get exactly one true and one false.
C1_ExactlyOneAcquires ==
    \A p, q \in Procs :
        (/\ p # q
         /\ Returned(p) /\ Returned(q)
         /\ sawFree[p] /\ sawFree[q]
         /\ acqEpoch[p] = acqEpoch[q])
        => {lockAcquired[p], lockAcquired[q]} = {"true", "false"}

C1_Witness ==
    \E p, q \in Procs :
        /\ p # q
        /\ sawFree[p] /\ sawFree[q]
        /\ acqEpoch[p] = acqEpoch[q]
        /\ lockAcquired[p] = "true"
        /\ lockAcquired[q] = "false"

\* C2: at most one invocation of main is inside its batch-processing section.
C2_MutualExclusion ==
    \A p, q \in Procs : (InBatch(p) /\ InBatch(q)) => p = q

C2_Witness ==
    \E p, q \in Procs :
        /\ p # q
        /\ pc[p] = "await"
        /\ lockAcquired[q] = "false"
        /\ sawFree[q]

C4_StatusMatchesTermination ==
    \A p \in Procs :
        WritingResult(p) =>
            LET r == newState[p].transcripts[Cur(p)]
            IN  IF term[p] = Exited(0)
                THEN r.status = "completed" /\ "analyzed_at" \in DOMAIN r
                ELSE /\ r.status = "failed"
                     /\ term[p].kind = "exit"
                     /\ r.exit_code = term[p].code

\* C5: a nonzero exit is recorded as failed and does not end the batch: the
\* loop is left without an error only after the last transcript of the batch.
C5_BatchContinuesAfterFailure ==
    \A p \in Procs :
        /\ (WritingResult(p) /\ CloseExitCode(term[p]) # 0)
            => newState[p].transcripts[Cur(p)].status = "failed"
        /\ (pc[p] = "release" /\ error[p] = None /\ failedIdx[p] # {})
            => idx[p] = Len(unanalyzed[p]) + 1

C5_Witness ==
    \E p \in Procs :
        /\ pc[p] = "release"
        /\ error[p] = None
        /\ 1 \in failedIdx[p]
        /\ idx[p] = 3

\* C6: a transcript with a record in the snapshot a run read, whatever its
\* status, is not among that run's candidates and is not analyzed by that run.
C6_SeenNeverReturned ==
    \A p \in Procs :
        /\ Range(unanalyzed[p]) \cap DOMAIN state[p].transcripts = {}
        /\ analyzer[p] \subseteq Range(unanalyzed[p])

C6_Witness ==
    \E p \in Procs : \E t \in Transcripts :
        /\ pc[p] = "await"
        /\ t \in files
        /\ kind[t] = "normal"
        /\ t \in DOMAIN state[p].transcripts
        /\ state[p].transcripts[t].status = "failed"

\* C7: every record of every snapshot on disk, and of every snapshot being
\* written, carries exactly the fields of its status.
C7_NoStaleFields ==
    /\ CleanContent(stateFile)
    /\ \A p \in Procs :
          /\ CleanContent(tmpFile[p])
          /\ CleanContent(Json(newState[p]))

C7_Witness ==
    /\ Parses(stateFile)
    /\ \E t, u \in DOMAIN stateFile.data.transcripts :
          /\ stateFile.data.transcripts[t].status = "completed"
          /\ stateFile.data.transcripts[u].status = "failed"

\* C8: a well-formed canonical state file is never left partially written; it
\* changes only by the rename of a fully written temp file.
C8_RenameIsSoleMutator ==
    [][(Parses(stateFile) /\ stateFile' # stateFile) =>
          \E p \in Procs :
              /\ pc[p] \in {"ws1_rename", "ws2_rename"}
              /\ Parses(tmpFile[p])
              /\ stateFile' = tmpFile[p]]_vars

\* C9: main never fails on a damaged state file: every read of the state file
\* by main yields a well-formed snapshot.
C9_NeverFailsOnCorruptState ==
    \A p \in Procs : error[p] \notin {"SyntaxError", "TypeError"}

\* C10: processTranscript on a transcript whose file is gone only moves on to
\* the next transcript: no analyzer, no record, no write, no error.
C10_MissingFileSkipped ==
    [][\A p \in Procs :
          (/\ pc[p] = "pt_exists"
           /\ Cur(p) \notin files
           /\ pc'[p] \notin {"pt_exists", "crashed"})
          => /\ pc'[p] = "loop"
             /\ idx'[p] = idx[p] + 1
             /\ stateFile' = stateFile
             /\ tmpFile' = tmpFile
             /\ analyzer' = analyzer
             /\ ppFile' = ppFile
             /\ error'[p] = None]_vars

C10_Witness ==
    \E p \in Procs :
        /\ pc[p] = "loop"
        /\ idx[p] = 2
        /\ unanalyzed[p][1] \notin files
        /\ Parses(stateFile)
        /\ unanalyzed[p][1] \notin DOMAIN stateFile.data.transcripts

\* C11: an invocation that finds the lock held returns 0 in that very step:
\* no analyzer, no preprocessed file, no write of the state file or of a temp
\* file, no error, and the lock directory and its pid file stay as they are.
C11_LockHeldReturnsAtOnce ==
    [][\A p \in Procs :
          (/\ pc[p] = "acquire"
           /\ lock # None
           /\ pc'[p] \notin {"acquire", "crashed"})
          => /\ pc'[p] = "done"
             /\ lockAcquired'[p] = "false"
             /\ error'[p] = None
             /\ lock' = lock
             /\ pidFile' = pidFile
             /\ stateFile' = stateFile
             /\ tmpFile' = tmpFile
             /\ analyzer' = analyzer
             /\ ppFile' = ppFile]_vars

C11_Witness ==
    \E p, q \in Procs :
        /\ p # q
        /\ pc[p] = "done"
        /\ lockAcquired[p] = "false"
        /\ ~sawFree[p]
        /\ lock = q
        /\ pidFile = q
        /\ analyzer[q] # {}
        /\ analyzer[p] = {}

C13_ProcessedNeverOfferedAgain ==
    [][\A p \in Procs :
          (pc[p] = "filter" /\ pc'[p] = "acquire")
          => Range(unanalyzed'[p]) \cap prior[p] = {}]_vars

\* a record that says how the analysis of a transcript ended
FinalStatus == {"completed", "failed"}

\* C14: an analyzer child runs only while its parent waits for it in
\* processTranscript of the current transcript, at most one child runs at any
\* time, and the loop moves to the next transcript only once the child has
\* ended and the final status of the current transcript is on disk (or the
\* transcript was skipped because its file is gone).
C14_OneAtATime ==
    /\ [](/\ Cardinality({p \in Procs : analyzer[p] # {}}) <= 1
          /\ \A p \in Procs :
                analyzer[p] # {} => (pc[p] = "await" /\ analyzer[p] = {Cur(p)}))
    /\ [][\A p \in Procs :
            idx'[p] > idx[p]
            => /\ analyzer[p] = {}
               /\ analyzer'[p] = {}
               /\ \/ pc[p] = "pt_exists" /\ Cur(p) \notin files
                  \/ /\ pc[p] = "ws2_rename"
                     /\ term[p] # NoTerm
                     /\ Parses(stateFile')
                     /\ Cur(p) \in DOMAIN stateFile'.data.transcripts
                     /\ stateFile'.data.transcripts[Cur(p)].status
                            \in FinalStatus]_vars

C14_Witness ==
    \E p, q \in Procs :
        /\ p # q
        /\ pc[p] = "await"
        /\ idx[p] = 2
        /\ analyzer[p] = {unanalyzed[p][2]}
        /\ Parses(stateFile)
        /\ unanalyzed[p][1] \in DOMAIN stateFile.data.transcripts
        /\ stateFile.data.transcripts[unanalyzed[p][1]].status \in FinalStatus
        /\ pc[q] = "acquire"

C16_TargetIsOtherActiveSkill ==
    [][Len(consolidated') > Len(consolidated)
       => LET entry == consolidated'[Len(consolidated')]
          IN  /\ entry.into # entry.from
              /\ Active(entry.into)]_vars

C19_MoveFailureDoesNotAbort ==
    /\ [](/\ rpc # "thrown"
          /\ WarnedNames \cap Range(retired) = {}
          /\ \A n \in WarnedNames : Active(n)
          /\ rpc = "returned"
             => \A i \in 1..Len(snapshot) :
                   snapshot[i].sessions_since_use > retirementSessions
                   => snapshot[i].name \in Range(retired) \cup WarnedNames)
    /\ [][(/\ rpc = "loop"
            /\ ri' = ri + 1
            /\ snapshot[ri].sessions_since_use > retirementSessions
            /\ skills'[snapshot[ri].name] # Missing)
           => /\ \E w \in warned' \ warned : w.name = snapshot[ri].name
              /\ retired' = retired
              /\ rpc' = "loop"]_vars

C19_Witness ==
    /\ rpc = "returned"
    /\ \E i, j \in 1..Len(snapshot) :
          /\ i < j
          /\ snapshot[i].name \in WarnedNames
          /\ Active(snapshot[i].name)
          /\ snapshot[j].name \in Range(retired)
          /\ ~Active(snapshot[j].name)

\* C20: a pass never changes a directory that is in the holding area, and a
\* retiring skill whose base name is taken there is stored under the name
\* with the date appended, unless the move fails for a reason that has
\* nothing to do with the names (EACCES).
C20_CollisionKeepsBoth ==
    /\ [][\A t \in TargetPaths :
             holding[t] # Missing => holding'[t] = holding[t]]_vars
    /\ [][(/\ rpc = "loop"
            /\ ri' = ri + 1
            /\ snapshot[ri].sessions_since_use > retirementSessions
            /\ holding[TargetPath(snapshot[ri].name, NoSuffix)] # Missing
            /\ Warning(snapshot[ri].name, "EACCES") \notin warned')
           => /\ holding[TargetPath(snapshot[ri].name, DateSuffix)] = Missing
              /\ holding'[TargetPath(snapshot[ri].name, DateSuffix)] # Missing
              /\ skills'[snapshot[ri].name] = Missing
              /\ retired' = Append(retired, snapshot[ri].name)]_vars

\* C21: a skill a pass has retired is gone from the skills root and stored in
\* the holding area; getAllSkills returns only directories of the skills
\* root, never the holding area or anything in it; and no step changes a
\* directory once it is in the holding area.
C21_RetiredIsNotActive ==
    /\ [](\A n \in Range(retired) :
            /\ ~Active(n)
            /\ \E t \in TargetPaths : t.base = n /\ holding[t] # Missing)
    /\ [][(rpc = "idle" /\ rpc' = "loop")
           => \A i \in 1..Len(snapshot') :
                 /\ snapshot'[i].name \in ActiveNames
                 /\ snapshot'[i].name # RetiredEntry]_vars
    /\ [][\A t \in TargetPaths :
             holding[t] # Missing => holding'[t] = holding[t]]_vars

\* a second pass has started after a skill was stored in the holding area:
\* the stored skill is not in its list
C21_Witness ==
    /\ rpc = "loop"
    /\ Len(snapshot) = 2
    /\ retired = <<>>
    /\ \E n \in SkillNames :
          /\ ~Active(n)
          /\ holding[TargetPath(n, NoSuffix)] # Missing
          /\ holding[TargetPath(n, NoSuffix)].merged # {}
          /\ \A i \in 1..Len(snapshot) : snapshot[i].name # n

\* C22: whatever the name and the candidate list, every match of the strict
\* search is a match of the wide search on the same inputs, as often as it
\* occurs in the strict result.
C22_StrictWithinWide ==
    called = {"strict", "wide"}
    => \A name \in Range(strictMatches) :
          /\ name \in Range(wideMatches)
          /\ Cardinality({i \in 1..Len(strictMatches) : strictMatches[i] = name})
                <= Cardinality({i \in 1..Len(wideMatches) : wideMatches[i] = name})

\* both searches have returned; the strict one kept one candidate of the two
\* that the wide one kept
C22_Witness ==
    /\ called = {"strict", "wide"}
    /\ Len(strictMatches) = 1
    /\ Len(wideMatches) = 2
    /\ strictMatches[1] \in Range(wideMatches)

\* C23: the strict search returns exactly the candidates whose Jaccard score
\* is at least 0.30 and whose shared leading tokens are at least 3: each such
\* entry of the list is returned once, and nothing else is returned.
C23_StrictExactlyBoth ==
    "strict" \in called
    => LET Shared(name) ==
               Cardinality(Range(simName) \cap Range(name))
           All(name) ==
               Cardinality(Range(simName) \cup Range(name))
           Leading(name) ==
               Cardinality({k \in 1..Len(name) :
                               /\ k <= Len(simName)
                               /\ \A m \in 1..k : simName[m] = name[m]})
           Both(name) ==
               /\ 100 * Shared(name) >= 30 * All(name)
               /\ Leading(name) >= 3
       IN  \A name \in CandidateNames :
              Cardinality({i \in 1..Len(strictMatches) :
                              strictMatches[i] = name})
                = IF Both(name)
                  THEN Cardinality({i \in 1..Len(simExisting) :
                                       simExisting[i] = name})
                  ELSE 0

\* the strict search returned the candidate at the boundary score 0.30 with
\* three leading tokens and dropped the one with score 0.50 and two
C23_Witness ==
    /\ "strict" \in called
    /\ simName = <<"a", "b", "c", "d">>
    /\ Range(simExisting) =
          {<<"a", "b", "c", "e", "f", "g", "h", "i", "j">>, <<"a", "b">>}
    /\ strictMatches = <<(<<"a", "b", "c", "e", "f", "g", "h", "i", "j">>)>>

\* a tool result whose text processContentItem hands to truncateText
IsToolResultText(it) ==
    it.type = "tool_result" /\ it.shape \in {"string", "text_part"}

C25_LongLineCutByCharacters ==
    (/\ itemDone
     /\ IsToolResultText(item)
     /\ Len(item.text) = 1
     /\ item.text[1].chars > 50000)
    => LET out == processedItem.text
       IN  /\ \E i \in 1..Len(out) :
                 /\ out[i].kind = "marker"
                 /\ out[i].unit = "characters"
                 /\ out[i].count = item.text[1].chars - 50000
           /\ \A i \in 1..Len(out) :
                 out[i].kind = "line" => out[i].chars <= 25000

\* C26: preprocessTranscript never ends with an exception because of a line
\* of the transcript, and the file it writes holds, in their order, exactly
\* the records that are neither blank, nor unparsable, nor of a filtered type.
C26_BadLineNeverAborts ==
    /\ ppc # "thrown"
    /\ ppc = "returned"
       => LET survivors ==
                  {i \in 1..Len(inputLines) :
                      /\ inputLines[i].kind = "json"
                      /\ inputLines[i].entry.type \notin FilteredTypes}
          IN  /\ {outputFile[k].no : k \in 1..Len(outputFile)} = survivors
              /\ \A k \in 1..(Len(outputFile) - 1) :
                    outputFile[k].no < outputFile[k + 1].no

\* C27: no two calls of preprocessTranscript write to the same temp file
\* name, whether they come from one process or from several, within one
\* millisecond or not.
C27_TmpNamesUnique ==
    \A i, j \in 1..Len(calls) : i # j => calls[i] # calls[j]

\* C28: a call that can read the transcript goes over every active skill,
\* and each round changes that skill only: when the pattern of its name
\* occurs in the transcript, sessions_since_use becomes 0, usage_count grows
\* by exactly 1 and last_used becomes today; otherwise sessions_since_use
\* grows by exactly 1 and usage_count and last_used stay.
C28_TrackingUpdatesFrontmatter ==
    /\ [][(tpc = "idle" /\ tpc' = "loop")
           => {tracked'[i].name : i \in 1..Len(tracked')} = ActiveNames]_vars
    /\ [][(tpc = "loop" /\ ti' = ti + 1)
           => LET name == tracked[ti].name
                  before == skills[name]
                  after == skills'[name]
              IN  /\ \A other \in SkillNames \ {name} :
                        skills'[other] = skills[other]
                  /\ after.kind = "skill"
                  /\ IF PatternOccurs(name, transcriptContent)
                     THEN /\ after.sessions_since_use = 0
                          /\ after.usage_count = before.usage_count + 1
                          /\ after.last_used = Today
                     ELSE /\ after.sessions_since_use
                                = before.sessions_since_use + 1
                          /\ after.usage_count = before.usage_count
                          /\ after.last_used = before.last_used]_vars

\* a call has returned after it found one skill, used once before, and
\* missed another that was never used
C28_Witness ==
    /\ tpc = "returned"
    /\ Len(tracked) = 2
    /\ \E i, j \in 1..2 :
          /\ tracked[i].name \in Range(skillsFound)
          /\ tracked[i].sessions_since_use = MaxSessions
          /\ skills[tracked[i].name].sessions_since_use = 0
          /\ skills[tracked[i].name].usage_count = 2
          /\ skills[tracked[i].name].last_used = Today
          /\ tracked[j].name \notin Range(skillsFound)
          /\ skills[tracked[j].name].sessions_since_use
                = tracked[j].sessions_since_use + 1
          /\ skills[tracked[j].name].usage_count = 0
          /\ skills[tracked[j].name].last_used = "null"

\* ------------------------------------------------------------------------
\* main() triggered again and again by one session after the other
\* ------------------------------------------------------------------------

\* how many newer, analyzed files the window holds besides the transcripts
BulkChoices == {0, DiscoverCap - 1, DiscoverCap}

\* the state file names the newer files, so it exists and parses
InitLive ==
    /\ InitRun
    /\ bulk \in BulkChoices
    /\ bulk # 0 => stateFile = Json(initialState)
    /\ NoSkillsYet
    /\ LibIdle

\* the SessionEnd hook fires again once the background process has ended:
\* the parent spawns a new child, which enters main
Retrigger(p) ==
    /\ pc[p] \in {"done", "thrown"}
    /\ pc' = [pc EXCEPT ![p] = "idle"]
    /\ error' = [error EXCEPT ![p] = None]
    /\ lockAcquired' = [lockAcquired EXCEPT ![p] = None]
    /\ sawFree' = [sawFree EXCEPT ![p] = FALSE]
    /\ acqEpoch' = [acqEpoch EXCEPT ![p] = 0]
    /\ UNCHANGED <<envVars, skillVars, processed, lockVars, fileVars,
                   mainVars, ptVars, childVars>>

\* no file operation has failed and no analysis callback has rejected; a
\* step of the only process there is ends in such a state
NoFault == \A p \in Procs : error[p] = None

NextLive ==
    \/ Start(First) /\ NoFault'
    \/ InitExists(First) /\ NoFault'
    \/ InitRead(First) /\ NoFault'
    \/ InitOpen(First) /\ NoFault'
    \/ InitWrite(First) /\ NoFault'
    \/ Discover(First) /\ NoFault'
    \/ ReadState(First) /\ NoFault'
    \/ Filter(First) /\ NoFault'
    \/ AcquireMkdir(First) /\ NoFault'
    \/ AcquirePid(First) /\ NoFault'
    \/ LoopRead(First) /\ NoFault'
    \/ PtExists(First) /\ NoFault'
    \/ WriteInProgressTmp(First) /\ NoFault'
    \/ WriteInProgressRename(First) /\ NoFault'
    \/ Preprocess(First) /\ NoFault'
    \/ Stat(First) /\ NoFault'
    \/ Spawn(First) /\ NoFault'
    \/ AnalyzerClose(First) /\ NoFault'
    \/ WriteResultTmp(First) /\ NoFault'
    \/ WriteResultRename(First) /\ NoFault'
    \/ ReleaseLock(First) /\ NoFault'
    \/ Retrigger(First) /\ NoFault'

\* the process is scheduled until it ends, every analyzer child closes and
\* the sessions keep ending
SpecLive == InitLive /\ [][NextLive]_vars /\ WF_vars(NextLive)

\* C30: when main is triggered again and again, no transcript arrives and
\* every analysis terminates, every transcript that passes the exclusions of
\* the filter is eventually analyzed.
C30_QualifyingEventuallyAnalyzed ==
    \A t \in Transcripts :
        (t \in files /\ kind[t] = "normal") ~> (t \in processed)

\* C29: whatever the interleaving of the invocations of main, no analyzer is
\* started for a transcript on which an analysis has already run to its end
\* (a run has recorded its final status).
C29_AnalyzerAtMostOnce ==
    [][\A p \in Procs :
          (analyzer[p] = {} /\ analyzer'[p] # {})
          => analyzer'[p] \cap processed = {}]_vars

\* C31: a transcript record written to the state file is never lost: every
\* later well-formed snapshot on disk has a record for each transcript whose
\* final status a run has recorded.
C31_RecordNeverLost ==
    Parses(stateFile) => processed \subseteq DOMAIN stateFile.data.transcripts

\* C32: when main leaves releaseLock, returning or rethrowing, no transcript
\* its loop has reached is left with a record in status in_progress.
C32_NoInProgressLeft ==
    [][\A p \in Procs :
          (pc[p] = "release" /\ pc'[p] \in {"done", "thrown"})
          => \A i \in 1..Len(unanalyzed[p]) :
                (/\ i <= idx[p]
                 /\ Parses(stateFile')
                 /\ unanalyzed[p][i] \in DOMAIN stateFile'.data.transcripts)
                => stateFile'.data.transcripts[unanalyzed[p][i]].status
                       # "in_progress"]_vars

\* p is between the commit of the in_progress record and the end of the
\* analyzer child
Analyzing(p) == pc[p] \in {"preprocess", "stat", "spawn", "await"}

\* C33: the preprocessor and the analyzer run for a transcript only after
\* the rename that puts its in_progress record into the state file, and the
\* completed or failed record is built and written only after the analyzer
\* child has ended.
C33_MarkThenRunThenRecord ==
    [][\A p \in Procs :
          /\ (~Analyzing(p) /\ Analyzing(p)')
             => /\ pc[p] = "ws1_rename"
                /\ pc'[p] = "preprocess"
                /\ stateFile' = Json(inProgressState[p])
                /\ inProgressState[p].transcripts[Cur(p)].status
                       = "in_progress"
          /\ (ppFile'[p] /\ ~ppFile[p]) => pc[p] = "preprocess"
          /\ (analyzer'[p] # {} /\ analyzer[p] = {})
             => (pc[p] = "spawn" /\ ppFile[p])
          /\ (pc'[p] \in {"ws2_tmp", "ws2_rename"}
                /\ pc[p] \notin {"ws2_tmp", "ws2_rename"})
             => /\ pc[p] = "await"
                /\ analyzer[p] = {Cur(p)}
                /\ analyzer'[p] = {}
                /\ term'[p] # NoTerm
                /\ newState'[p].transcripts[Cur(p)].status \in FinalStatus
          /\ pc[p] \in {"ws2_tmp", "ws2_rename"}
             => (analyzer[p] = {} /\ term[p] # NoTerm)]_vars

\* the final record of a transcript is on disk after its analyzer ended
C33_Witness ==
    \E p \in Procs :
        /\ pc[p] = "loop"
        /\ idx[p] > 1
        /\ term[p] = NoTerm
        /\ Parses(stateFile)
        /\ unanalyzed[p][idx[p] - 1] \in DOMAIN stateFile.data.transcripts
        /\ stateFile.data.transcripts[unanalyzed[p][idx[p] - 1]].status
               \in FinalStatus

\* C34: once processTranscript has returned or thrown, the preprocessed temp
\* file it created is gone: the file of a live process exists only between
\* preprocessTranscript and the end of the analysis.
C34_TempFileRemoved ==
    \A p \in Procs :
        ppFile[p] => pc[p] \in {"stat", "spawn", "await", "crashed"}

\* ------------------------------------------------------------------------
\* filterUnanalyzed on its own: one call, for any list of candidates, any
\* snapshot and any limit
\* ------------------------------------------------------------------------

\* the records the mark functions leave for a transcript
Records ==
    { markTranscriptInProgress(initialState, t).transcripts[t] :
          t \in Transcripts }
    \cup { markTranscriptCompleted(initialState, t).transcripts[t] :
               t \in Transcripts }
    \cup { markTranscriptFailed(initialState, t, c).transcripts[t] :
               t \in Transcripts, c \in ExitCodes \ {0} }

\* the snapshots a state file can hold
Snapshots ==
    { [initialState EXCEPT !.transcripts = f] :
          f \in UNION { [D -> Records] : D \in SUBSET Transcripts } }

\* main is about to call filterUnanalyzed: the candidates are the files
\* discoverTranscripts found, some of which may be gone by now
InitFilter ==
    /\ pc = [p \in Procs |-> IF p = First THEN "filter" ELSE "idle"]
    /\ kind \in KindChoices
    /\ files \in SUBSET Transcripts
    /\ bulk = 0
    /\ \E found \in SUBSET Transcripts :
          /\ files \subseteq found
          /\ found # {}
          /\ transcripts = [p \in Procs |->
                               IF p = First THEN SortByMtimeDesc(found)
                               ELSE <<>>]
    /\ \E snap \in Snapshots :
          /\ stateFile = Json(snap)
          /\ state = [p \in Procs |->
                         IF p = First THEN snap ELSE initialState]
    /\ transcriptCount \in 1..BatchSize
    /\ tmpFile = [p \in Procs |-> Missing]
    /\ lock = None
    /\ pidFile = None
    /\ initFd = {}
    /\ ppFile = [p \in Procs |-> FALSE]
    /\ analyzer = [p \in Procs |-> {}]
    /\ unanalyzed = [p \in Procs |-> <<>>]
    /\ idx = [p \in Procs |-> 1]
    /\ failedIdx = [p \in Procs |-> {}]
    /\ currentState = [p \in Procs |-> initialState]
    /\ inProgressState = [p \in Procs |-> initialState]
    /\ newState = [p \in Procs |-> initialState]
    /\ term = [p \in Procs |-> NoTerm]
    /\ error = [p \in Procs |-> None]
    /\ lockAcquired = [p \in Procs |-> None]
    /\ sawFree = [p \in Procs |-> FALSE]
    /\ acqEpoch = [p \in Procs |-> 0]
    /\ epoch = 0
    /\ processed = {}
    /\ prior = [p \in Procs |-> {}]
    /\ NoSkillsYet
    /\ NoSearch
    /\ truncateLines = DefaultTruncateLines
    /\ NoItem
    /\ NoPreprocess
    /\ NoTmp
    /\ NoTracking
    /\ NoMark

NextFilter == Filter(First)

SpecFilter == InitFilter /\ [][NextFilter]_vars

C36_ValidLeftUnchanged ==
    [][\A p \in Procs :
          (/\ pc[p] \in {"init_exists", "init_read", "init_open", "init_write"}
           /\ pc'[p] # pc[p]
           /\ Parses(stateFile))
          => stateFile' = stateFile]_vars

exceptMark ==
    <<pipelineVars, retireVars, similarVars, optVars, itemVars, ppVars,
      tmpVars, trackVars>>

\* a snapshot object and a transcript path; nothing else runs
InitMark ==
    /\ InitMain
    /\ kind = [t \in Transcripts |-> "normal"]
    /\ stateFile = Json(initialState)
    /\ NoSkillsYet
    /\ NoSearch
    /\ DefaultOptions
    /\ NoItem
    /\ NoPreprocess
    /\ NoTmp
    /\ NoTracking
    /\ markInput \in Snapshots
    /\ markPath \in Transcripts
    /\ markCalled = "none"
    /\ markReturned = initialState

\* markTranscriptInProgress(state, transcriptPath): the function reads state
\* and assigns to no property of it
CallMarkInProgress ==
    /\ markCalled = "none"
    /\ markCalled' = "markTranscriptInProgress"
    /\ markReturned' = markTranscriptInProgress(markInput, markPath)
    /\ UNCHANGED <<markInput, markPath, exceptMark>>

\* markTranscriptCompleted(state, transcriptPath)
CallMarkCompleted ==
    /\ markCalled = "none"
    /\ markCalled' = "markTranscriptCompleted"
    /\ markReturned' = markTranscriptCompleted(markInput, markPath)
    /\ UNCHANGED <<markInput, markPath, exceptMark>>

\* markTranscriptFailed(state, transcriptPath, exitCode)
CallMarkFailed ==
    /\ markCalled = "none"
    /\ markCalled' = "markTranscriptFailed"
    /\ \E exitCode \in ExitCodes \ {0} :
          markReturned' = markTranscriptFailed(markInput, markPath, exitCode)
    /\ UNCHANGED <<markInput, markPath, exceptMark>>

NextMark == CallMarkInProgress \/ CallMarkCompleted \/ CallMarkFailed

SpecMark == InitMark /\ [][NextMark]_vars

\* C38: a call of markTranscriptInProgress, markTranscriptCompleted or
\* markTranscriptFailed leaves the snapshot it was given as it was, and the
\* snapshot it returns has the same version and, for every transcript other
\* than the target, the same record (or none) as the input.
C38_MarkFrame ==
    [][markCalled' # markCalled
       => /\ markInput' = markInput
          /\ markReturned'.version = markInput.version
          /\ DOMAIN markReturned'.transcripts \ {markPath}
                = DOMAIN markInput.transcripts \ {markPath}
          /\ \A u \in DOMAIN markInput.transcripts \ {markPath} :
                markReturned'.transcripts[u] = markInput.transcripts[u]]_vars

\* a function returned: the target had a record, which was replaced, and
\* another transcript had one, which was kept
C38_Witness ==
    /\ markCalled # "none"
    /\ markPath \in DOMAIN markInput.transcripts
    /\ markReturned.transcripts[markPath] # markInput.transcripts[markPath]
    /\ \E u \in DOMAIN markInput.transcripts : u # markPath

\* ------------------------------------------------------------------------
\* main() on a disk where the write of the pid file can fail
\* ------------------------------------------------------------------------

\* acquireLock: fs.mkdirSync created the directory, fs.writeFileSync of the
\* pid file fails (disk full, I/O error); the code is not EEXIST, so the
\* catch rethrows, and main has not entered its try block
AcquirePidFails(p) ==
    /\ pc[p] = "acquire_pid"
    /\ lock # None
    /\ error' = [error EXCEPT ![p] = "EIO"]
    /\ pc' = [pc EXCEPT ![p] = Unwind(FALSE)]
    /\ LeaveMain(p)
    /\ UNCHANGED <<envVars, skillVars, processed, lockVars, fileVars, ptVars,
                   childVars, acqVars>>

NextIO == Next \/ \E p \in Procs : AcquirePidFails(p)

SpecIO == Init /\ [][NextIO]_vars

\* C39: when acquireLock throws, the lock directory its mkdir created does
\* not stay behind.
C39_ThrowLeavesNoLock ==
    [][\A p \in Procs :
          (pc[p] = "acquire_pid" /\ error[p] = None /\ error'[p] # None)
          => lock' # p]_vars

\* C40: in the result of retireUnusedSkills every consolidation entry names
\* a skill the pass retired: each consolidated 'from' is also in 'retired'.
C40_ConsolidatedWereRetired ==
    rpc = "returned"
    => \A i \in 1..Len(consolidated) :
          consolidated[i].from \in Range(retired)

====
